---------------------------- MODULE Spec2Model ----------------------------
(***************************************************************************)
(* The AJAX request lifecycle of framework-next/ajax/Request.js: the       *)
(* constructor's chain (checkRequest, ajaxSetup, client validation,        *)
(* confirmation, fetch, partial update, outcome dispatch) as a state       *)
(* machine over the promises and callbacks the browser schedules.          *)
(*                                                                         *)
(* JavaScript strings are sequences of symbols; every JavaScript value the *)
(* code tests for truthiness is such a sequence, with the non-string       *)
(* values undefined, null, true and false written as one reserved symbol.  *)
(***************************************************************************)
EXTENDS Integers, Sequences, FiniteSets, TLC

\* ------------------------------------------------------------------ bounds

\* Longest handler name tried against checkRequest.
MaxHandlerLen == 4

\* Most top-level keys in one JSON response body.
MaxKeys == 2

\* ------------------------------------------------------- JavaScript values

Undefined == <<"#undefined">>
Null == <<"#null">>
False == <<"#false">>
True == <<"#true">>

\* ToBoolean: the empty string, undefined, null and false are falsy.
Truthy(v) == v \notin {<<>>, Undefined, Null, False}

\* a || b
Or(a, b) == IF Truthy(a) THEN a ELSE b

\* a && b
And(a, b) == IF Truthy(a) THEN b ELSE a

Bool(b) == IF b THEN True ELSE False

\* String.prototype.substr(from, length), with from counted from 0.
Substr(s, from, length) ==
    SubSeq(s, from + 1, IF from + length > Len(s) THEN Len(s) ELSE from + length)

Count(s, x) == Cardinality({i \in DOMAIN s : s[i] = x})

Has(s, x) == \E i \in DOMAIN s : s[i] = x

\* Every x in s comes before every y in s.
AllBefore(s, x, y) == \A i, j \in DOMAIN s : (s[i] = x /\ s[j] = y) => i < j

\* ------------------------------------------------------------ the requests

\* The Request instances; Next runs "r1" alone, NextPair runs both.
ReqIds == {"r1", "r2"}

\* ---------------------------------------------------------------- objects

\* A plain object: its own enumerable string keys in insertion order, each
\* entry [k |-> key, v |-> value].
\* obj[key], undefined when the key is not there.
Get(obj, key) ==
    IF \E i \in DOMAIN obj : obj[i].k = key
    THEN obj[CHOOSE i \in DOMAIN obj : obj[i].k = key].v
    ELSE Undefined

\* obj[key] = value: an existing key keeps its place, a new one goes last.
Put(obj, key, value) ==
    IF \E i \in DOMAIN obj : obj[i].k = key
    THEN [i \in DOMAIN obj |-> IF obj[i].k = key THEN [k |-> key, v |-> value] ELSE obj[i]]
    ELSE Append(obj, [k |-> key, v |-> value])

\* The side-channel prefix and the fields that carry it.
XW == <<"X", "_", "W", "I", "N", "T", "E", "R">>
X_WINTER_SUCCESS == XW \o <<"_SUCCESS">>
X_WINTER_RESPONSE_CODE == XW \o <<"_RESPONSE_CODE">>
X_WINTER_REDIRECT == XW \o <<"_REDIRECT">>
X_WINTER_FLASH_MESSAGES == XW \o <<"_FLASH_MESSAGES">>
X_WINTER_ASSETS == XW \o <<"_ASSETS">>
X_WINTER_ERROR_FIELDS == XW \o <<"_ERROR_FIELDS">>
X_WINTER_ERROR_MESSAGE == XW \o <<"_ERROR_MESSAGE">>


\* ------------------------------------------------------------ checkRequest

\* The symbols \w matches, among those the handler names here are made of.
IsWord(c) == c \in {"o", "n", "a", "S", "_"}

\* on* at position i: an "o", then any number of "n".
OnAt(s, i) ==
    /\ i <= Len(s)
    /\ s[i] = "o"
    /\ \E j \in 0..(Len(s) - i) : \A k \in 1..j : s[i + k] = "n"

\* The places where (?:\w+\:{2}) can end: one or more word symbols from the
\* start, then two colons.
NamespaceEnds(s) ==
    {k \in 1..(Len(s) - 2) :
        /\ \A i \in 1..k : IsWord(s[i])
        /\ s[k + 1] = ":"
        /\ s[k + 2] = ":"}

\* this.handler.match(/^(?:\w+\:{2})?on*/): anchored at the start only.
HandlerMatches(s) ==
    \/ OnAt(s, 1)
    \/ \E k \in NamespaceEnds(s) : OnAt(s, k + 3)

\* checkRequest: TRUE when it returns, FALSE when it throws. element is
\* "undefined", "element" (an Element instance) or "other"; handler is
\* [defined, s].
CheckRequest(element, handler) ==
    IF element # "undefined" /\ element # "element" THEN FALSE
    ELSE IF ~handler.defined THEN FALSE
    ELSE HandlerMatches(handler.s)

\* ------------------------------------------------------------ the getters

\* get confirm() testing for a given option instead of a truthy one.
ConfirmOfDefined(confirmOption) == IF confirmOption = Undefined THEN False ELSE True

\* get confirm(): options.confirm || false
ConfirmOf(confirmOption) == Or(confirmOption, False)

\* get redirect(): (options.redirect && options.redirect.length) ? options.redirect : null
RedirectOf(redirectOption) ==
    IF Truthy(redirectOption) /\ Len(redirectOption) > 0 THEN redirectOption ELSE Null

\* get flash(): options.flash || false
FlashOf(flashOption) == Or(flashOption, False)

\* ------------------------------------------------------ doClientValidation

\* doClientValidation: form is "none" (this.form is null), "valid" or
\* "invalid" (what checkValidity answers). The calls made, and the result.
DoClientValidation(browserValidate, form) ==
    IF browserValidate = True /\ form # "none"
    THEN IF form = "invalid"
         THEN [ok |-> FALSE, ev |-> <<"checkValidity", "reportValidity">>]
         ELSE [ok |-> TRUE, ev |-> <<"checkValidity">>]
    ELSE [ok |-> TRUE, ev |-> <<>>]

\* --------------------------------------------------------------- doConfirm

\* What a callback option is: not a function ("absent"), a function that
\* returns the literal false ("false"), or one that returns anything else.
Callbacks == {"absent", "false", "other"}

\* doConfirm broadcasting the hook, when somebody listens, before it looks at
\* the per-request callback.
DoConfirmStartHookFirst(handleConfirmMessage, listeners, answer) ==
    IF listeners > 0
    THEN [ev |-> <<"hook:ajaxConfirmMessage">>, decision |-> "pending"]
    ELSE IF handleConfirmMessage # "absent"
    THEN [ev |-> <<"handleConfirmMessage">>,
          decision |-> IF handleConfirmMessage = "false" THEN "no" ELSE "yes"]
    ELSE [ev |-> <<"confirm()">>, decision |-> IF answer THEN "yes" ELSE "no"]

\* doConfirm up to its first suspension: the per-request callback decides if
\* it is a function; else the blocking confirm() if nobody listens to
\* ajaxConfirmMessage; else the aggregated hook is broadcast and awaited.
DoConfirmStart(handleConfirmMessage, listeners, answer) ==
    IF handleConfirmMessage # "absent"
    THEN [ev |-> <<"handleConfirmMessage">>,
          decision |-> IF handleConfirmMessage = "false" THEN "no" ELSE "yes"]
    ELSE IF listeners = 0
    THEN [ev |-> <<"confirm()">>, decision |-> IF answer THEN "yes" ELSE "no"]
    ELSE [ev |-> <<"hook:ajaxConfirmMessage">>, decision |-> "pending"]

\* How an aggregated (promise) hook settles: fulfilled with a truthy value,
\* fulfilled with false, or rejected.
HookOutcomes == {"true", "false", "reject"}

\* How an aggregated hook settled, as the call that follows its broadcast.
SettledEv(vetoName, rejectName, outcome) ==
    CASE outcome = "false" -> <<vetoName>>
      [] outcome = "reject" -> <<rejectName>>
      [] OTHER -> <<>>

\* doConfirm after the await: `if (fulfilled) return true`, the rejection
\* caught and dropped, `return false` otherwise.
DoConfirmResume(outcome) == IF outcome = "true" THEN "yes" ELSE "no"

\* ------------------------------------------------------------------ doAjax

\* What a promise of the lifecycle carries: a plain object ("obj": entries),
\* a string ("str": text), an Error ("error": text is its message), or
\* nothing yet ("none").
NoValue == [kind |-> "none", entries |-> <<>>, text |-> <<>>]
ObjValue(entries) == [kind |-> "obj", entries |-> entries, text |-> <<>>]
StrValue(text) == [kind |-> "str", entries |-> <<>>, text |-> text]

\* renderError: new Error(message); an undefined message gives the empty one.
RenderError(message) ==
    [kind |-> "error", entries |-> <<>>,
     text |-> IF message = Undefined THEN <<>> ELSE message]

\* response.ok: a status in 200..299.
Ok(status) == status >= 200 /\ status <= 299

\* The status as a JavaScript number value.
NumberValue(status) ==
    CASE status = 200 -> <<"#200">>
      [] status = 406 -> <<"#406">>
      [] OTHER -> <<"#500">>

\* Object.assign with the status fields first and responseData over them.
AssignStatusBodyWins(body, status) ==
    LET entries == IF body.kind = "null" THEN <<>> ELSE body.entries
        success == IF Get(entries, X_WINTER_SUCCESS) = Undefined
                   THEN Put(entries, X_WINTER_SUCCESS, Bool(status # 406)) ELSE entries
    IN  IF Get(success, X_WINTER_RESPONSE_CODE) = Undefined
        THEN Put(success, X_WINTER_RESPONSE_CODE, NumberValue(status)) ELSE success

\* Object.assign({}, responseData, {X_WINTER_SUCCESS, X_WINTER_RESPONSE_CODE}):
\* null contributes no keys.
AssignStatus(body, status) ==
    Put(Put(IF body.kind = "null" THEN <<>> ELSE body.entries,
            X_WINTER_SUCCESS, Bool(status # 406)),
        X_WINTER_RESPONSE_CODE, NumberValue(status))

\* doAjax rejecting with the parsed body of a failed response as it is.
DoAjaxSettleRawError(status, json, body) ==
    IF ~Ok(status) /\ status # 406
    THEN IF body.kind = "bad"
         THEN [result |-> "reject",
               value |-> RenderError(<<"Unable to parse JSON response: ", "SyntaxError">>)]
         ELSE IF json /\ body.kind = "obj"
         THEN [result |-> "reject", value |-> ObjValue(body.entries)]
         ELSE IF json
         THEN [result |-> "throw", value |-> NoValue]
         ELSE [result |-> "reject", value |-> RenderError(body.text)]
    ELSE IF body.kind = "bad"
    THEN [result |-> "reject",
          value |-> RenderError(<<"Unable to parse JSON response: ", "SyntaxError">>)]
    ELSE IF json
    THEN [result |-> "resolve", value |-> ObjValue(AssignStatus(body, status))]
    ELSE [result |-> "resolve", value |-> StrValue(body.text)]

\* doAjax with `if (!response.ok)` alone: a 406 is an error like any other.
DoAjaxSettleOkOnly(status, json, body) ==
    IF json
    THEN IF body.kind = "bad"
         THEN [result |-> "reject",
               value |-> RenderError(<<"Unable to parse JSON response: ", "SyntaxError">>)]
         ELSE IF ~Ok(status)
         THEN IF body.kind = "null"
              THEN [result |-> "throw", value |-> NoValue]
              ELSE [result |-> "reject",
                    value |-> RenderError(Get(body.entries, <<"message">>))]
         ELSE [result |-> "resolve", value |-> ObjValue(AssignStatus(body, status))]
    ELSE IF body.kind = "bad"
         THEN [result |-> "reject",
               value |-> RenderError(<<"Unable to process response: ", "TypeError">>)]
         ELSE IF ~Ok(status)
         THEN [result |-> "reject", value |-> RenderError(body.text)]
         ELSE [result |-> "resolve", value |-> StrValue(body.text)]

\* The callbacks of fetch(...).then in doAjax, run on a response with the
\* given status and Content-Type once its body is read. body.kind is "obj" or
\* "null" (what json() parsed), "text" (what text() read) or "bad" (json() or
\* text() rejected). The result: doAjax's promise resolved or rejected with
\* value, or "throw" when the callback itself throws and settles nothing.
DoAjaxSettle(status, json, body) ==
    IF ~Ok(status) /\ status # 406
    THEN IF json
         THEN IF body.kind = "bad"
              THEN [result |-> "reject",
                    value |-> RenderError(<<"Unable to parse JSON response: ", "SyntaxError">>)]
              ELSE IF body.kind = "null"
              THEN [result |-> "throw", value |-> NoValue]
              ELSE [result |-> "reject",
                    value |-> RenderError(Get(body.entries, <<"message">>))]
         ELSE IF body.kind = "bad"
              THEN [result |-> "reject",
                    value |-> RenderError(<<"Unable to process response: ", "TypeError">>)]
              ELSE [result |-> "reject", value |-> RenderError(body.text)]
    ELSE IF json
         THEN IF body.kind = "bad"
              THEN [result |-> "reject",
                    value |-> RenderError(<<"Unable to parse JSON response: ", "SyntaxError">>)]
              ELSE [result |-> "resolve", value |-> ObjValue(AssignStatus(body, status))]
         ELSE IF body.kind = "bad"
              THEN [result |-> "reject",
                    value |-> RenderError(<<"Unable to process response: ", "TypeError">>)]
              ELSE [result |-> "resolve", value |-> StrValue(body.text)]

\* fetch() itself rejected.
DoAjaxNoResponse ==
    RenderError(<<"Unable to retrieve a response from the server: ", "TypeError">>)

\* response.<key>: a string has none of the side-channel properties.
Field(response, key) ==
    IF response.kind = "obj" THEN Get(response.entries, key) ELSE Undefined

\* ----------------------------------------------------------- processUpdate

\* The array index i as a property name.
IndexKey(i) == <<<<"0", "1", "2", "3">>[i + 1]>>

\* Object.entries(response): the entries of an object; for a string, one
\* entry per character, keyed by its index.
EntriesOf(response) ==
    IF response.kind = "obj" THEN response.entries
    ELSE [i \in 1..Len(response.text) |->
            [k |-> IndexKey(i - 1), v |-> <<response.text[i]>>]]

\* Only the three fields processResponse reads are kept off the partials.
IsPartialKeyNamed(key) ==
    key \notin {X_WINTER_REDIRECT, X_WINTER_FLASH_MESSAGES, X_WINTER_ASSETS}

\* key.substr(0, 8) !== 'X_WINTER'
IsPartialKey(key) == Substr(key, 0, 8) # XW

\* The partials of a response: every entry whose key does not start with
\* X_WINTER, in order.
ExtractPartials(response) ==
    SelectSeq(EntriesOf(response), LAMBDA e : IsPartialKey(e.k))

\* ---------------------------------------------------------------- doUpdate

\* The document: three elements, one <a> and two <b>.
Elements == {"a", "b1", "b2"}
TagOf(e) == IF e = "a" THEN "a" ELSE "b"

\* The selectors querySelectorAll accepts here are the type selectors, one
\* name; it throws a SyntaxError on anything else (the empty string, a name
\* that starts with a digit or with "@" or "^").
ValidSelector(selector) ==
    /\ Len(selector) = 1
    /\ selector[1] \notin {"0", "1", "2", "3", "@", "^"}

QuerySelectorAll(selector) == {e \in Elements : <<TagOf(e)>> = selector}

\* this.winter.sanitizer().sanitize(content): drops the unsafe symbol.
Sanitize(content) == SelectSeq(content, LAMBDA c : c # "!")

\* `innerHTML +=` in every case of the switch.
ApplyModeAppending(mode, innerHTML, content) == innerHTML \o Sanitize(content)

\* case 'replace' / 'append' / 'prepend'
ApplyMode(mode, innerHTML, content) ==
    CASE mode = "replace" -> Sanitize(content)
      [] mode = "append" -> innerHTML \o Sanitize(content)
      [] OTHER -> Sanitize(content) \o innerHTML

\* The selector of a partial before its mode prefix is taken off:
\* options.update[partial] when that is truthy, the partial name otherwise.
SelectorOf(update, partial) == Or(Get(update.map, partial), partial)

ModeOf(selector) ==
    IF Substr(selector, 0, 1) = <<"@">> THEN "append"
    ELSE IF Substr(selector, 0, 1) = <<"^">> THEN "prepend"
    ELSE "replace"

StripMode(selector) ==
    IF ModeOf(selector) = "replace" THEN selector
    ELSE Substr(selector, 1, Len(selector))

\* A turn that treats a selector without a match as an error.
DoUpdateOneStrict(st, update, entry) ==
    LET selector == SelectorOf(update, entry.k)
        elements == QuerySelectorAll(StripMode(selector))
    IN  IF ~update.defined \/ ~ValidSelector(StripMode(selector)) \/ elements = {}
        THEN [st EXCEPT !.threw = TRUE, !.looked = Append(@, entry.k)]
        ELSE [st EXCEPT !.dom = [e \in Elements |->
                                   IF e \in elements
                                   THEN ApplyMode(ModeOf(selector), st.dom[e], entry.v)
                                   ELSE st.dom[e]],
                        !.resolved = TRUE,
                        !.touched = @ \cup elements,
                        !.writes = @ + Cardinality(elements),
                        !.looked = Append(@, entry.k),
                        !.queried = Append(@, StripMode(selector))]

\* One turn of the for loop in doUpdate on st = [dom, resolved, threw,
\* touched, writes, looked, queried]: reading options.update[partial] throws
\* when options.update is undefined, querySelectorAll throws on a bad
\* selector; resolve() is called at the end of every turn. looked are the
\* names looked up in options.update, queried the selectors handed to
\* querySelectorAll.
DoUpdateOne(st, update, entry) ==
    IF ~update.defined
    THEN [st EXCEPT !.threw = TRUE, !.looked = Append(@, entry.k)]
    ELSE LET selector == SelectorOf(update, entry.k)
             mode == ModeOf(selector)
             stripped == StripMode(selector)
         IN  IF ~ValidSelector(stripped)
             THEN [st EXCEPT !.threw = TRUE, !.looked = Append(@, entry.k),
                             !.queried = Append(@, stripped)]
             ELSE LET elements == QuerySelectorAll(stripped)
                  IN  [dom |-> [e \in Elements |->
                                   IF e \in elements
                                   THEN ApplyMode(mode, st.dom[e], entry.v)
                                   ELSE st.dom[e]],
                       resolved |-> TRUE,
                       threw |-> FALSE,
                       touched |-> st.touched \cup elements,
                       writes |-> st.writes + Cardinality(elements),
                       looked |-> Append(st.looked, entry.k),
                       queried |-> Append(st.queried, stripped)]

RECURSIVE DoUpdateFrom(_, _, _, _)
DoUpdateFrom(st, update, partials, i) ==
    IF i > Len(partials) \/ st.threw THEN st
    ELSE DoUpdateFrom(DoUpdateOne(st, update, partials[i]), update, partials, i + 1)

\* doUpdate(partials) on the document dom: the document afterwards, the
\* elements written, the number of innerHTML assignments, what the loop
\* looked up and queried, whether a turn threw, and how the returned promise
\* settled. The exception of a turn rejects the promise unless an earlier
\* turn resolved it already.
DoUpdate(dom, update, partials) ==
    LET st == DoUpdateFrom([dom |-> dom, resolved |-> FALSE, threw |-> FALSE,
                            touched |-> {}, writes |-> 0,
                            looked |-> <<>>, queried |-> <<>>], update, partials, 1)
    IN  [dom |-> st.dom,
         touched |-> st.touched,
         writes |-> st.writes,
         looked |-> st.looked,
         queried |-> st.queried,
         threw |-> st.threw,
         promise |-> IF st.resolved THEN "fulfilled"
                     ELSE IF st.threw THEN "rejected" ELSE "pending"]

\* ---------------------------------------------------------------- dispatch

\* What a dispatch routine did: the calls it made in order, the URL it
\* navigated to, the message it alerted, the fields it handed to validation
\* handling, the message and type flashed (undefined and "none" when it did
\* not), and whether it threw.
Quiet ==
    [ev |-> <<>>, navigate |-> Undefined, alert |-> Undefined,
     fields |-> Undefined, flash |-> Undefined, flashType |-> "none", threw |-> FALSE]

\* One routine after another; nothing runs after a throw.
Then(first, second) ==
    IF first.threw THEN first
    ELSE [ev |-> first.ev \o second.ev,
          navigate |-> IF second.navigate # Undefined THEN second.navigate ELSE first.navigate,
          alert |-> IF second.alert # Undefined THEN second.alert ELSE first.alert,
          fields |-> IF second.fields # Undefined THEN second.fields ELSE first.fields,
          flash |-> IF second.flashType # "none" THEN second.flash ELSE first.flash,
          flashType |-> IF second.flashType # "none" THEN second.flashType
                        ELSE first.flashType,
          threw |-> second.threw]

\* A per-request callback option, called if it is a function.
CallbackEv(name, vetoName, callback) ==
    IF callback = "absent" THEN <<>>
    ELSE IF callback = "false" THEN <<name, vetoName>>
    ELSE <<name>>

\* this.winter.globalEvent(name, ...): false when a listener cancelled it.
HookEv(name, vetoName, passed) == IF passed THEN <<name>> ELSE <<name, vetoName>>

\* processRedirect registering the popstate listener on entry and asking the
\* ajaxRedirect hook whatever the callback returned.
ProcessRedirectEager(url, handleRedirectResponse, ajaxRedirect) ==
    LET called == CallbackEv("handleRedirectResponse", "handleRedirectResponse=false",
                             handleRedirectResponse)
        hooked == HookEv("hook:ajaxRedirect", "hook:ajaxRedirect=false", ajaxRedirect)
    IN  IF handleRedirectResponse = "false" \/ ~ajaxRedirect
        THEN [Quiet EXCEPT !.ev = <<"addEventListener:popstate">> \o called \o hooked]
        ELSE [Quiet EXCEPT
                !.ev = <<"addEventListener:popstate">> \o called \o hooked
                       \o <<"location.assign">>,
                !.navigate = url]

\* processRedirect(url)
ProcessRedirect(url, handleRedirectResponse, ajaxRedirect) ==
    LET called == CallbackEv("handleRedirectResponse", "handleRedirectResponse=false",
                             handleRedirectResponse)
        hooked == HookEv("hook:ajaxRedirect", "hook:ajaxRedirect=false", ajaxRedirect)
    IN  IF handleRedirectResponse = "false" THEN [Quiet EXCEPT !.ev = called]
        ELSE IF ~ajaxRedirect THEN [Quiet EXCEPT !.ev = called \o hooked]
        ELSE [Quiet EXCEPT
                !.ev = called \o hooked \o <<"addEventListener:popstate", "location.assign">>,
                !.navigate = url]

\* FlashListener.ajaxErrorMessage(message): what it hands to winter.flash and
\* what it returns.
FlashListenerAjaxErrorMessage(message) ==
    [flash |-> message, flashType |-> "error", returns |-> False]

\* winter.globalEvent('ajaxErrorMessage', message): every listener is called;
\* others tells whether the listeners other than FlashListener all let the
\* event pass, registered whether FlashListener listens. The event is
\* cancelled when a listener returned false.
GlobalEventAjaxErrorMessage(message, others, registered) ==
    LET heard == FlashListenerAjaxErrorMessage(message)
        passed == others /\ (~registered \/ heard.returns # False)
    IN  [passed |-> passed,
         ev |-> <<"hook:ajaxErrorMessage">>
                \o (IF registered THEN <<"listens:FlashListener", "winter.flash">> ELSE <<>>)
                \o (IF passed THEN <<>> ELSE <<"hook:ajaxErrorMessage=false">>),
         flash |-> IF registered THEN heard.flash ELSE Undefined,
         flashType |-> IF registered THEN heard.flashType ELSE "none"]

\* processErrorMessage alerting whatever the ajaxErrorMessage event returned.
ProcessErrorMessageLoud(message, handleErrorMessage, hook) ==
    LET called == CallbackEv("handleErrorMessage", "handleErrorMessage=false",
                             handleErrorMessage)
    IN  IF handleErrorMessage = "false"
        THEN [Quiet EXCEPT !.ev = <<"processErrorMessage">> \o called]
        ELSE [Quiet EXCEPT
                !.ev = <<"processErrorMessage">> \o called \o hook.ev \o <<"alert">>,
                !.alert = message, !.flash = hook.flash, !.flashType = hook.flashType]

\* processErrorMessage(message); hook is what the ajaxErrorMessage event does
\* once it is reached.
ProcessErrorMessage(message, handleErrorMessage, hook) ==
    LET called == CallbackEv("handleErrorMessage", "handleErrorMessage=false",
                             handleErrorMessage)
    IN  IF handleErrorMessage = "false"
        THEN [Quiet EXCEPT !.ev = <<"processErrorMessage">> \o called]
        ELSE IF ~hook.passed
        THEN [Quiet EXCEPT !.ev = <<"processErrorMessage">> \o called \o hook.ev,
                           !.flash = hook.flash, !.flashType = hook.flashType]
        ELSE [Quiet EXCEPT
                !.ev = <<"processErrorMessage">> \o called \o hook.ev \o <<"alert">>,
                !.alert = message, !.flash = hook.flash, !.flashType = hook.flashType]

\* processFlashMessages(messages)
ProcessFlashMessages(messages, handleFlashMessages, ajaxFlashMessages) ==
    LET called == CallbackEv("handleFlashMessages", "handleFlashMessages=false",
                             handleFlashMessages)
        hooked == HookEv("hook:ajaxFlashMessages", "hook:ajaxFlashMessages=false",
                         ajaxFlashMessages)
    IN  IF handleFlashMessages = "false"
        THEN [Quiet EXCEPT !.ev = <<"processFlashMessages">> \o called]
        ELSE [Quiet EXCEPT !.ev = <<"processFlashMessages">> \o called \o hooked]

\* processValidationErrors(fields)
ProcessValidationErrors(fields, handleValidationErrors, ajaxValidationErrors) ==
    LET called == CallbackEv("handleValidationErrors", "handleValidationErrors=false",
                             handleValidationErrors)
        hooked == HookEv("hook:ajaxValidationErrors", "hook:ajaxValidationErrors=false",
                         ajaxValidationErrors)
    IN  IF handleValidationErrors = "false"
        THEN [Quiet EXCEPT !.ev = <<"processValidationErrors">> \o called, !.fields = fields]
        ELSE [Quiet EXCEPT !.ev = <<"processValidationErrors">> \o called \o hooked,
                           !.fields = fields]

\* this.processAssets(assets): the class defines no method of that name, so
\* the call throws a TypeError.
ProcessAssets(assets) == [Quiet EXCEPT !.ev = <<"processAssets">>, !.threw = TRUE]

\* processResponse with the `return` after processRedirect left out.
ProcessResponseNoReturn(response, redirectOption, flashOption, c) ==
    LET url == Or(Field(response, X_WINTER_REDIRECT), RedirectOf(redirectOption))
        messages == Field(response, X_WINTER_FLASH_MESSAGES)
        assets == Field(response, X_WINTER_ASSETS)
        entered == [Quiet EXCEPT !.ev = <<"processResponse">>]
    IN  Then(Then(Then(entered,
                       IF Truthy(url)
                       THEN ProcessRedirect(url, c.handleRedirectResponse, c.ajaxRedirect)
                       ELSE Quiet),
                  IF Truthy(And(FlashOf(flashOption), messages))
                  THEN ProcessFlashMessages(messages, c.handleFlashMessages,
                                            c.ajaxFlashMessages)
                  ELSE Quiet),
             IF Truthy(assets) THEN ProcessAssets(assets) ELSE Quiet)

\* processResponse(response), with options.redirect and options.flash.
ProcessResponse(response, redirectOption, flashOption, c) ==
    LET url == Or(Field(response, X_WINTER_REDIRECT), RedirectOf(redirectOption))
        messages == Field(response, X_WINTER_FLASH_MESSAGES)
        assets == Field(response, X_WINTER_ASSETS)
        entered == [Quiet EXCEPT !.ev = <<"processResponse">>]
    IN  IF Truthy(url)
        THEN Then(entered, ProcessRedirect(url, c.handleRedirectResponse, c.ajaxRedirect))
        ELSE Then(Then(entered,
                       IF Truthy(And(FlashOf(flashOption), messages))
                       THEN ProcessFlashMessages(messages, c.handleFlashMessages,
                                                 c.ajaxFlashMessages)
                       ELSE Quiet),
                  IF Truthy(assets) THEN ProcessAssets(assets) ELSE Quiet)

\* processError showing the message only when there are no fields.
ProcessErrorEither(error, c) ==
    LET fields == Field(error, X_WINTER_ERROR_FIELDS)
        message == Field(error, X_WINTER_ERROR_MESSAGE)
        entered == [Quiet EXCEPT !.ev = <<"processError">>]
        hook(m) == GlobalEventAjaxErrorMessage(m, c.ajaxErrorMessage, c.flashListener)
    IN  IF error.kind = "error"
        THEN Then(entered,
                  ProcessErrorMessage(error.text, c.handleErrorMessage, hook(error.text)))
        ELSE IF Truthy(fields)
        THEN Then(entered, ProcessValidationErrors(fields, c.handleValidationErrors,
                                                   c.ajaxValidationErrors))
        ELSE IF Truthy(message)
        THEN Then(entered,
                  ProcessErrorMessage(message, c.handleErrorMessage, hook(message)))
        ELSE entered

\* processError(error)
ProcessError(error, c) ==
    LET fields == Field(error, X_WINTER_ERROR_FIELDS)
        message == Field(error, X_WINTER_ERROR_MESSAGE)
        entered == [Quiet EXCEPT !.ev = <<"processError">>]
        hook(m) == GlobalEventAjaxErrorMessage(m, c.ajaxErrorMessage, c.flashListener)
    IN  IF error.kind = "error"
        THEN Then(entered,
                  ProcessErrorMessage(error.text, c.handleErrorMessage, hook(error.text)))
        ELSE Then(Then(entered,
                       IF Truthy(fields)
                       THEN ProcessValidationErrors(fields, c.handleValidationErrors,
                                                    c.ajaxValidationErrors)
                       ELSE Quiet),
                  IF Truthy(message)
                  THEN ProcessErrorMessage(message, c.handleErrorMessage, hook(message))
                  ELSE Quiet)

\* The same callback with the `else` left out: processResponse runs after
\* processError too.
DispatchOutcomeNoElse(response, redirectOption, flashOption, c) ==
    IF Field(response, X_WINTER_SUCCESS) = False
    THEN Then(ProcessError(response, c),
              ProcessResponse(response, redirectOption, flashOption, c))
    ELSE ProcessResponse(response, redirectOption, flashOption, c)

\* The fulfilment callback of processUpdate(response).then in the
\* constructor: an explicit false success flag goes to processError,
\* anything else to processResponse.
DispatchOutcome(response, redirectOption, flashOption, c) ==
    IF Field(response, X_WINTER_SUCCESS) = False
    THEN ProcessError(response, c)
    ELSE ProcessResponse(response, redirectOption, flashOption, c)

\* ------------------------------------------------------------------ inputs

Entry(key, value) == [k |-> key, v |-> value]

\* The partials a server sends: <a> content, <b> content with an unsafe
\* symbol in it, and a key that names no element of the document.
PartialPool ==
    {Entry(<<"a">>, <<"A">>), Entry(<<"b">>, <<"B", "!">>), Entry(<<"message">>, <<"boom">>)}

\* The side-channel fields a server sends, in the order it writes them.
SideOrder ==
    <<Entry(X_WINTER_REDIRECT, <<"/done">>),
      Entry(X_WINTER_FLASH_MESSAGES, <<"#object", "saved">>),
      Entry(X_WINTER_ASSETS, <<"#object", "app.js">>),
      Entry(X_WINTER_ERROR_FIELDS, <<"#object", "name">>),
      Entry(X_WINTER_ERROR_MESSAGE, <<"Invalid">>),
      Entry(X_WINTER_SUCCESS, False)>>
SidePool == {SideOrder[i] : i \in DOMAIN SideOrder}

\* The sequences of at most n entries of pool, no key twice.
DistinctSeqs(pool, n) ==
    {s \in UNION {[1..m -> pool] : m \in 0..n} :
        \A i, j \in DOMAIN s : i # j => s[i].k # s[j].k}

\* What json() and text() give: a parsed object, null, a text, or a failure.
ObjBody(entries) == [kind |-> "obj", entries |-> entries, text |-> <<>>]
NullBody == [kind |-> "null", entries |-> <<>>, text |-> <<>>]
BadBody == [kind |-> "bad", entries |-> <<>>, text |-> <<>>]
TextBody(text) == [kind |-> "text", entries |-> <<>>, text |-> text]

\* The JSON objects of at most n keys: partials first, then side fields.
ObjBodies(n) ==
    {ObjBody(p \o SelectSeq(SideOrder, LAMBDA e : e \in side)) :
        <<p, side>> \in {x \in DistinctSeqs(PartialPool, n) \X SUBSET SidePool :
                            Len(x[1]) + Cardinality(x[2]) <= n}}

\* Bodies in which the server writes the status fields itself, against the
\* status it answers with.
StatusBodies ==
    {ObjBody(<<Entry(X_WINTER_SUCCESS, True)>>),
     ObjBody(<<Entry(X_WINTER_RESPONSE_CODE, <<"#500">>)>>),
     ObjBody(<<Entry(X_WINTER_SUCCESS, False), Entry(X_WINTER_RESPONSE_CODE, <<"#406">>)>>)}

\* options.update: not given, or a map from partial names to selectors.
UpdateUnread == [read |-> FALSE, defined |-> FALSE, map |-> <<>>]
UpdateAbsent == [read |-> TRUE, defined |-> FALSE, map |-> <<>>]
UpdateMap(map) == [read |-> TRUE, defined |-> TRUE, map |-> map]

Unread == <<"#unread">>

\* What the environment answers during one dispatch: each callback option
\* and whether each cancellable hook passed.
\*
\* The inputs a run draws from. elements, handlers: the constructor's
\* arguments. setups: whether ajaxSetup passes. browserValidates, forms,
\* confirms, redirects, flashes, updates, and the callbacks: the options.
\* listeners: how many modules listen to ajaxConfirmMessage. answers: what the
\* user answers to confirm(). failures: whether fetch() may reject. statuses,
\* jsons, jsonBodies, textBodies: the response. hooks: how an aggregated hook
\* settles. dispatches: the answers of callbacks and hooks during dispatch.
DefaultAnswers ==
    [handleRedirectResponse |-> "absent", ajaxRedirect |-> TRUE,
     handleFlashMessages |-> "absent", ajaxFlashMessages |-> TRUE,
     handleErrorMessage |-> "absent", ajaxErrorMessage |-> TRUE, flashListener |-> FALSE,
     handleValidationErrors |-> "absent", ajaxValidationErrors |-> TRUE]

\* The answers that reach processResponse and those that reach processError.
ResponseAnswers ==
    {[DefaultAnswers EXCEPT !.handleRedirectResponse = x[1], !.ajaxRedirect = x[2],
                            !.handleFlashMessages = x[3], !.ajaxFlashMessages = x[4]] :
        x \in Callbacks \X BOOLEAN \X Callbacks \X BOOLEAN}
ErrorAnswers ==
    {[DefaultAnswers EXCEPT !.handleErrorMessage = x[1], !.ajaxErrorMessage = x[2],
                            !.handleValidationErrors = x[3], !.ajaxValidationErrors = x[4],
                            !.flashListener = x[5]] :
        x \in Callbacks \X BOOLEAN \X Callbacks \X BOOLEAN \X BOOLEAN}

Handler(s) == [defined |-> TRUE, s |-> s]
NoHandler == [defined |-> FALSE, s |-> <<>>]

\* The profile of the specification Spec: everything a response can be and
\* everything the update and the dispatch can meet, behind a constructor
\* that confirms through the aggregated hook or not at all.
Back ==
    [elements |-> {"element"},
     handlers |-> {Handler(<<"o", "n", "S", "a">>), Handler(<<"S", "a">>)},
     setups |-> BOOLEAN,
     browserValidates |-> {Undefined},
     forms |-> {"none"},
     confirms |-> {Undefined, <<"Sure?">>},
     handleConfirmMessages |-> {"absent"},
     listeners |-> {1},
     answers |-> {TRUE},
     failures |-> {TRUE},
     statuses |-> {200, 406, 500},
     jsons |-> BOOLEAN,
     jsonBodies |-> ObjBodies(MaxKeys) \cup StatusBodies \cup {NullBody, BadBody},
     textBodies |-> {TextBody(<<>>), TextBody(<<"h", "i">>), BadBody},
     beforeUpdates |-> Callbacks,
     hooks |-> HookOutcomes,
     updates |-> {UpdateAbsent, UpdateMap(<<>>),
                  UpdateMap(<<Entry(<<"a">>, <<"@", "a">>)>>),
                  UpdateMap(<<Entry(<<"a">>, <<"^", "b">>)>>),
                  UpdateMap(<<Entry(<<"a">>, <<"c">>)>>),
                  UpdateMap(<<Entry(<<"b">>, <<"@">>)>>)},
     redirects |-> {Undefined, <<>>, <<"/home">>},
     flashes |-> {Undefined, True},
     responseAnswers |-> ResponseAnswers,
     errorAnswers |-> ErrorAnswers]

\* The profile of SpecFront: everything the constructor can meet before it
\* calls fetch, in front of a few responses.
Front ==
    [Back EXCEPT
        !.elements = {"undefined", "element", "other"},
        !.handlers = {Handler(<<"o", "n", "S", "a">>), Handler(<<"S", "a">>), NoHandler},
        !.browserValidates = {Undefined, True},
        !.forms = {"none", "valid", "invalid"},
        !.confirms = {Undefined, <<>>, False, <<"Sure?">>},
        !.handleConfirmMessages = Callbacks,
        !.listeners = {0, 1},
        !.answers = BOOLEAN,
        !.statuses = {200, 500},
        !.jsons = {TRUE},
        !.jsonBodies = {ObjBody(<<>>), ObjBody(<<Entry(<<"a">>, <<"A">>)>>), BadBody},
        !.beforeUpdates = {"absent"},
        !.updates = {UpdateMap(<<>>)},
        !.redirects = {Undefined},
        !.flashes = {Undefined},
        !.responseAnswers = {DefaultAnswers},
        !.errorAnswers = {DefaultAnswers}]

\* The handler names of at most n symbols: letters, the colon, and a symbol
\* that is neither.
HandlerAlphabet == {"o", "n", "a", ":", "-"}
HandlerNames(n) == UNION {[1..m -> HandlerAlphabet] : m \in 0..n}

\* The profile of SpecLive: every way a request can stop or go on, with the
\* dispatch left to its defaults.
Live ==
    [Back EXCEPT
        !.jsonBodies = {ObjBody(<<>>), ObjBody(<<Entry(<<"a">>, <<"A">>)>>),
                        ObjBody(<<Entry(<<"a">>, <<"A">>), Entry(<<"b">>, <<"B", "!">>)>>),
                        ObjBody(<<Entry(X_WINTER_ASSETS, <<"#object", "app.js">>)>>),
                        NullBody, BadBody},
        !.redirects = {Undefined},
        !.flashes = {Undefined},
        !.responseAnswers = {DefaultAnswers},
        !.errorAnswers = {DefaultAnswers}]

\* The profile of SpecNames: every handler name, in front of one response.
Names ==
    [Front EXCEPT
        !.handlers = {Handler(s) : s \in HandlerNames(MaxHandlerLen)} \cup {NoHandler},
        !.browserValidates = {Undefined},
        !.forms = {"none"},
        !.confirms = {Undefined, <<"Sure?">>},
        !.handleConfirmMessages = {"absent"},
        !.listeners = {1},
        !.answers = {TRUE},
        !.hooks = {"true"},
        !.statuses = {200},
        !.jsonBodies = {ObjBody(<<Entry(<<"a">>, <<"A">>)>>), BadBody}]

\* The responses two requests in flight get: each its own contents and its
\* own redirect URL.
PairBodies(r) ==
    IF r = "r1"
    THEN {ObjBody(<<Entry(<<"a">>, <<"A">>)>>),
          ObjBody(<<Entry(<<"b">>, <<"B", "!">>)>>),
          ObjBody(<<Entry(<<"a">>, <<"A">>), Entry(X_WINTER_REDIRECT, <<"/done">>)>>)}
    ELSE {ObjBody(<<Entry(<<"b">>, <<"Y">>)>>),
          ObjBody(<<Entry(<<"b">>, <<"Y">>), Entry(<<"a">>, <<"Z">>)>>),
          ObjBody(<<Entry(<<"a">>, <<"Z">>), Entry(X_WINTER_REDIRECT, <<"/two">>)>>)}

\* The profile of SpecPair, for each of the two requests.
Pair(r) ==
    [Back EXCEPT
        !.handlers = {Handler(<<"o", "n", "S", "a">>)},
        !.setups = {TRUE},
        !.hooks = {"true", "reject"},
        !.statuses = {200, 406},
        !.jsons = {TRUE},
        !.jsonBodies = PairBodies(r),
        !.beforeUpdates = {"absent"},
        !.updates = {UpdateMap(<<>>), UpdateMap(<<Entry(<<"a">>, <<"^", "b">>)>>)},
        !.redirects = {Undefined},
        !.flashes = {Undefined},
        !.responseAnswers = {DefaultAnswers},
        !.errorAnswers = {DefaultAnswers}]

\* The inputs of a run, by the name of its profile; those of "Pair" depend
\* on the request.
Inputs(in, r) ==
    CASE in = "Back" -> Back
      [] in = "Front" -> Front
      [] in = "Names" -> Names
      [] in = "Live" -> Live
      [] OTHER -> Pair(r)

\* ----------------------------------------------------- Handler: the values

\* Most legacy requests followed in one run.
MaxLegacy == 4

\* The elements legacy requests start from: two forms and a button.
LegacyElements == {"form1", "form2", "button"}

\* this.requests[event.target]: the key of a property is a string, so the
\* element is converted with ToString, which names its interface.
PropertyKeyOf(target) ==
    IF target = "button" THEN "[object HTMLButtonElement]" ELSE "[object HTMLFormElement]"

PropertyKeys == {PropertyKeyOf(e) : e \in LegacyElements}

\* Promise.withResolvers(): a pending promise; of is the element whose
\* $ajaxPromise created it, by the element whose event settled it.
WithResolvers(target) ==
    [of |-> target, state |-> "pending", by |-> "none", with |-> "none"]

\* resolve(with) or reject(with) of a promise, called by the listener of an
\* event on target: the first call settles it, later calls do nothing.
Settle(promise, state, with, target) ==
    IF promise.state = "pending"
    THEN [promise EXCEPT !.state = state, !.by = target, !.with = with]
    ELSE promise

\* ------------------------------------------------------------------- state

VARIABLES
    pc,         \* where each request is in the constructor's promise chain
    args,       \* the element and handler each request was constructed with
    events,     \* the calls each request has made, in order
    options,    \* the options each request has read so far
    decision,   \* what doConfirm resolved to: "none", "pending", "yes", "no"
    asked,      \* what doConfirm met: the callback, the listeners, the answers
    http,       \* the status, Content-Type and body fetch() answered with
    value,      \* what doAjax's promise settled with
    dom,        \* innerHTML of every element of the document
    writers,    \* the requests that assigned each element's innerHTML
    turns,      \* what the loop of doUpdate looked up, queried, and whether it threw
    delivered,  \* the URL navigated to, the message alerted, the fields handled
    unhandled,  \* a promise of the request rejected with no handler attached
    listening,  \* Handler.ready: "no" before it ran, "on" or "off" after
    requests,   \* Handler.requests: the resolvers kept under each property key
    promises,   \* the promises Handler handed to ajaxStart, in order of creation
    legacy,     \* whether each element has a legacy request in flight
    broken      \* a listener of Handler threw

lifecycle ==
    <<pc, args, events, options, decision, asked, http, value, dom, writers, turns,
      delivered, unhandled>>

tracking == <<listening, requests, promises, legacy, broken>>

vars == <<lifecycle, tracking>>

NoArgs == [element |-> "undefined", handler |-> NoHandler, form |-> "none"]

NoBody == [kind |-> "none", entries |-> <<>>, text |-> <<>>]

NoHttp == [status |-> 0, json |-> FALSE, body |-> NoBody]

NoOptions ==
    [browserValidate |-> Unread, confirm |-> Unread, update |-> UpdateUnread,
     redirect |-> Unread, flash |-> Unread]

NothingDelivered ==
    [navigate |-> Undefined, alert |-> Undefined, fields |-> Undefined,
     flash |-> Undefined, flashType |-> "none"]

InitialDom == [e \in Elements |-> <<TagOf(e), "0">>]

\* Nothing asked yet: no callback read, no listeners counted, no answer.
NotAsked ==
    [handleConfirmMessage |-> "unread", listeners |-> -1, answer |-> "none", outcome |-> "none"]

\* What doConfirm reads on its way: the callback option; the listeners of
\* ajaxConfirmMessage when the callback is not a function; the answer to
\* confirm() when nobody listens.
Asked(handleConfirmMessage, listeners, answer) ==
    [handleConfirmMessage |-> handleConfirmMessage,
     listeners |-> IF handleConfirmMessage = "absent" THEN listeners ELSE -1,
     answer |-> IF handleConfirmMessage = "absent" /\ listeners = 0
                THEN (IF answer THEN "yes" ELSE "no") ELSE "none",
     outcome |-> "none"]

NoTurns == [looked |-> <<>>, queried |-> <<>>, threw |-> FALSE]

Init ==
    /\ pc = [r \in ReqIds |-> "new"]
    /\ args = [r \in ReqIds |-> NoArgs]
    /\ events = [r \in ReqIds |-> <<>>]
    /\ options = [r \in ReqIds |-> NoOptions]
    /\ decision = [r \in ReqIds |-> "none"]
    /\ http = [r \in ReqIds |-> NoHttp]
    /\ value = [r \in ReqIds |-> NoValue]
    /\ dom = InitialDom
    /\ writers = [e \in Elements |-> {}]
    /\ asked = [r \in ReqIds |-> NotAsked]
    /\ turns = [r \in ReqIds |-> NoTurns]
    /\ delivered = [r \in ReqIds |-> NothingDelivered]
    /\ unhandled = [r \in ReqIds |-> FALSE]
    /\ listening = "no"
    /\ requests = [k \in PropertyKeys |-> 0]
    /\ promises = <<>>
    /\ legacy = [e \in LegacyElements |-> "idle"]
    /\ broken = FALSE

\* ------------------------------------------------------------- constructor

\* The constructor running client validation before it broadcasts ajaxSetup.
ConstructorValidatingFirst(element, handler, setup, browserValidate, form, confirm, handleConfirmMessage, listeners, answer) ==
    LET validation == DoClientValidation(browserValidate, form)
        confirming == DoConfirmStart(handleConfirmMessage, listeners, answer)
        hooked == HookEv("hook:ajaxSetup", "hook:ajaxSetup=false", setup)
    IN  IF ~CheckRequest(element, handler)
        THEN [pc |-> "threw", ev |-> <<"throw">>, decision |-> "none"]
        ELSE IF ~validation.ok
        THEN [pc |-> "aborted", ev |-> validation.ev, decision |-> "none"]
        ELSE IF ~setup
        THEN [pc |-> "aborted", ev |-> validation.ev \o hooked, decision |-> "none"]
        ELSE IF Truthy(ConfirmOf(confirm))
        THEN [pc |-> IF confirming.decision = "pending" THEN "confirming" ELSE "confirmed",
              ev |-> validation.ev \o hooked \o confirming.ev,
              decision |-> confirming.decision]
        ELSE [pc |-> "sending", ev |-> validation.ev \o hooked \o <<"fetch">>,
              decision |-> "none"]

\* The constructor up to its first suspension, as [pc, ev, decision]:
\* checkRequest throws; ajaxSetup cancelled or client validation failed
\* returns; a truthy confirm starts doConfirm; otherwise doAjax calls fetch.
Constructor(element, handler, setup, browserValidate, form, confirm, handleConfirmMessage, listeners, answer) ==
    LET validation == DoClientValidation(browserValidate, form)
        confirming == DoConfirmStart(handleConfirmMessage, listeners, answer)
        hooked == HookEv("hook:ajaxSetup", "hook:ajaxSetup=false", setup)
    IN  IF ~CheckRequest(element, handler)
        THEN [pc |-> "threw", ev |-> <<"throw">>, decision |-> "none"]
        ELSE IF ~setup
        THEN [pc |-> "aborted", ev |-> hooked, decision |-> "none"]
        ELSE IF ~validation.ok
        THEN [pc |-> "aborted", ev |-> hooked \o validation.ev, decision |-> "none"]
        ELSE IF Truthy(ConfirmOf(confirm))
        THEN [pc |-> IF confirming.decision = "pending" THEN "confirming" ELSE "confirmed",
              ev |-> hooked \o validation.ev \o confirming.ev,
              decision |-> confirming.decision]
        ELSE [pc |-> "sending", ev |-> hooked \o validation.ev \o <<"fetch">>,
              decision |-> "none"]

\* new Request(element, handler, options)
Construct(r, in) ==
    /\ pc[r] = "new"
    /\ \E element \in Inputs(in, r).elements, handler \in Inputs(in, r).handlers,
          setup \in Inputs(in, r).setups,
          browserValidate \in Inputs(in, r).browserValidates,
          form \in Inputs(in, r).forms, confirm \in Inputs(in, r).confirms,
          handleConfirmMessage \in Inputs(in, r).handleConfirmMessages,
          listeners \in Inputs(in, r).listeners, answer \in Inputs(in, r).answers :
          LET c == Constructor(element, handler, setup, browserValidate, form, confirm,
                               handleConfirmMessage, listeners, answer)
          IN  /\ pc' = [pc EXCEPT ![r] = c.pc]
              /\ args' = [args EXCEPT ![r] =
                            [element |-> element, handler |-> handler, form |-> form]]
              /\ events' = [events EXCEPT ![r] = c.ev]
              /\ decision' = [decision EXCEPT ![r] = c.decision]
              /\ asked' = [asked EXCEPT ![r] =
                             IF c.pc \in {"confirming", "confirmed"}
                             THEN Asked(handleConfirmMessage, listeners, answer)
                             ELSE NotAsked]
              /\ options' = [options EXCEPT
                                ![r].browserValidate =
                                    IF c.pc = "threw" \/ ~setup THEN Unread ELSE browserValidate,
                                ![r].confirm =
                                    IF c.pc \in {"threw", "aborted"} THEN Unread ELSE confirm]
    /\ UNCHANGED <<http, value, dom, writers, turns, delivered, unhandled, tracking>>

\* The aggregated ajaxConfirmMessage hook settles and doConfirm resumes.
ConfirmSettled(r, in) ==
    /\ pc[r] = "confirming"
    /\ \E outcome \in Inputs(in, r).hooks :
          /\ decision' = [decision EXCEPT ![r] = DoConfirmResume(outcome)]
          /\ asked' = [asked EXCEPT ![r].outcome = outcome]
          /\ events' = [events EXCEPT ![r] =
                          @ \o SettledEv("hook:ajaxConfirmMessage=false",
                                         "hook:ajaxConfirmMessage=reject", outcome)]
    /\ pc' = [pc EXCEPT ![r] = "confirmed"]
    /\ UNCHANGED <<args, options, http, value, dom, writers, turns, delivered, unhandled, tracking>>

\* The callback of doConfirm().then without its `if (confirmed)`.
AfterConfirmUnchecked(r) ==
    /\ pc[r] = "confirmed"
    /\ pc' = [pc EXCEPT ![r] = "sending"]
    /\ events' = [events EXCEPT ![r] = Append(@, "fetch")]
    /\ UNCHANGED <<args, options, decision, asked, http, value, dom, writers, turns, delivered,
                   unhandled, tracking>>

\* The callback of doConfirm().then: `if (confirmed)` doAjax calls fetch.
AfterConfirm(r) ==
    /\ pc[r] = "confirmed"
    /\ IF decision[r] = "yes"
       THEN /\ pc' = [pc EXCEPT ![r] = "sending"]
            /\ events' = [events EXCEPT ![r] = Append(@, "fetch")]
       ELSE /\ pc' = [pc EXCEPT ![r] = "denied"]
            /\ UNCHANGED events
    /\ UNCHANGED <<args, options, decision, asked, http, value, dom, writers, turns, delivered,
                   unhandled, tracking>>

\* ------------------------------------------------------------------- fetch

\* fetch() settles: rejected (doAjax rejects with the rendered error), or a
\* response whose body is still to be read.
FetchSettled(r, in) ==
    /\ pc[r] = "sending"
    /\ \E failed \in Inputs(in, r).failures \cup {FALSE} :
          IF failed
          THEN /\ pc' = [pc EXCEPT ![r] = "rejected"]
               /\ value' = [value EXCEPT ![r] = DoAjaxNoResponse]
               /\ UNCHANGED http
          ELSE \E status \in Inputs(in, r).statuses, json \in Inputs(in, r).jsons :
                  /\ pc' = [pc EXCEPT ![r] = "reading"]
                  /\ http' = [http EXCEPT ![r] =
                                [status |-> status, json |-> json, body |-> NoBody]]
                  /\ UNCHANGED value
    /\ UNCHANGED <<args, events, options, decision, asked, dom, writers, turns, delivered,
                   unhandled, tracking>>

\* response.json() or response.text() settles and its callback runs.
BodySettled(r, in) ==
    /\ pc[r] = "reading"
    /\ \E body \in IF http[r].json THEN Inputs(in, r).jsonBodies
                   ELSE Inputs(in, r).textBodies :
          LET settled == DoAjaxSettle(http[r].status, http[r].json, body)
          IN  /\ pc' = [pc EXCEPT ![r] =
                          CASE settled.result = "resolve" -> "resolved"
                            [] settled.result = "reject" -> "rejected"
                            [] OTHER -> "hung"]
              /\ http' = [http EXCEPT ![r].body = body]
              /\ value' = [value EXCEPT ![r] = settled.value]
              /\ unhandled' = [unhandled EXCEPT ![r] = (settled.result = "throw")]
    /\ UNCHANGED <<args, events, options, decision, asked, dom, writers, turns, delivered,
                   tracking>>

\* ------------------------------------------------------------------ update

\* processUpdate with the result of beforeUpdate dropped.
ProcessUpdateStartUnchecked(response, beforeUpdate) ==
    LET called == CallbackEv("beforeUpdate", "beforeUpdate=false", beforeUpdate)
    IN  IF Len(ExtractPartials(response)) = 0
        THEN [pc |-> "updated", ev |-> <<"processUpdate">> \o called]
        ELSE [pc |-> "beforeUpdate",
              ev |-> <<"processUpdate">> \o called \o <<"hook:ajaxBeforeUpdate">>]

\* processUpdate(response) up to its first suspension, as [pc, ev]:
\* beforeUpdate returning false rejects; no partials resolves; otherwise
\* ajaxBeforeUpdate is broadcast and awaited.
ProcessUpdateStart(response, beforeUpdate) ==
    LET called == CallbackEv("beforeUpdate", "beforeUpdate=false", beforeUpdate)
    IN  IF beforeUpdate = "false"
        THEN [pc |-> "failed", ev |-> <<"processUpdate">> \o called]
        ELSE IF Len(ExtractPartials(response)) = 0
        THEN [pc |-> "updated", ev |-> <<"processUpdate">> \o called]
        ELSE [pc |-> "beforeUpdate",
              ev |-> <<"processUpdate">> \o called \o <<"hook:ajaxBeforeUpdate">>]

\* The fulfilment callback of doAjax().then in the constructor.
BeginUpdate(r, in) ==
    /\ pc[r] = "resolved"
    /\ \E beforeUpdate \in Inputs(in, r).beforeUpdates :
          LET started == ProcessUpdateStart(value[r], beforeUpdate)
          IN  /\ pc' = [pc EXCEPT ![r] = started.pc]
              /\ events' = [events EXCEPT ![r] = @ \o started.ev]
              /\ unhandled' = [unhandled EXCEPT ![r] = (started.pc = "failed")]
    /\ UNCHANGED <<args, options, decision, asked, http, value, dom, writers, turns, delivered,
                   tracking>>

\* promises.then(onFulfilled, onRejected) in processUpdate: the fulfilment
\* callback takes no argument and runs doUpdate whatever the hook resolved
\* to; only a rejection goes to reject().
UpdateProceeds(outcome) == outcome # "reject"

\* The partials of one request's response kept where every request finds them.
ClosurePartialsShared(r) == ExtractPartials(value["r1"])

\* `partials` in the closure of processUpdate: those of the response this
\* request's doAjax resolved with.
ClosurePartials(r) == ExtractPartials(value[r])

\* The callbacks of doUpdate(partials).then calling resolve() at once.
AfterDoUpdateNoFrame(promise) ==
    CASE promise = "fulfilled" -> [pc |-> "updated", ev |-> <<>>]
      [] promise = "rejected" -> [pc |-> "failed", ev |-> <<>>]
      [] OTHER -> [pc |-> "stuck", ev |-> <<>>]

\* The callbacks of doUpdate(partials).then, as [pc, ev]: a fulfilled promise
\* requests a redraw frame whose callback will resolve, a rejected one
\* rejects.
AfterDoUpdate(promise) ==
    CASE promise = "fulfilled" -> [pc |-> "frame", ev |-> <<"requestAnimationFrame">>]
      [] promise = "rejected" -> [pc |-> "failed", ev |-> <<>>]
      [] OTHER -> [pc |-> "stuck", ev |-> <<>>]

\* The aggregated ajaxBeforeUpdate hook settles: doUpdate runs and, once its
\* promise is fulfilled, a redraw frame is requested.
BeforeUpdateSettled(r, in) ==
    /\ pc[r] = "beforeUpdate"
    /\ \E outcome \in Inputs(in, r).hooks :
          IF UpdateProceeds(outcome)
          THEN \E update \in Inputs(in, r).updates :
                  LET done == DoUpdate(dom, update, ClosurePartials(r))
                      assigned == [i \in 1..done.writes |-> "innerHTML"]
                      settled == SettledEv("hook:ajaxBeforeUpdate=false",
                                           "hook:ajaxBeforeUpdate=reject", outcome)
                  IN  /\ dom' = done.dom
                      /\ writers' = [e \in Elements |->
                                        IF e \in done.touched THEN writers[e] \cup {r}
                                        ELSE writers[e]]
                      /\ turns' = [turns EXCEPT ![r] =
                                      [looked |-> done.looked, queried |-> done.queried,
                                       threw |-> done.threw]]
                      /\ options' = [options EXCEPT ![r].update = update]
                      /\ pc' = [pc EXCEPT ![r] = AfterDoUpdate(done.promise).pc]
                      /\ events' = [events EXCEPT ![r] =
                                      @ \o settled \o <<"doUpdate">> \o assigned \o
                                      AfterDoUpdate(done.promise).ev]
                      /\ unhandled' = [unhandled EXCEPT ![r] = (done.promise = "rejected")]
          ELSE /\ pc' = [pc EXCEPT ![r] = "failed"]
               /\ events' = [events EXCEPT ![r] =
                               @ \o SettledEv("hook:ajaxBeforeUpdate=false",
                                              "hook:ajaxBeforeUpdate=reject", outcome)]
               /\ unhandled' = [unhandled EXCEPT ![r] = TRUE]
               /\ UNCHANGED <<dom, writers, turns, options>>
    /\ UNCHANGED <<args, decision, asked, http, value, delivered, tracking>>

\* The redraw frame callback: () => resolve().
Frame(r) ==
    /\ pc[r] = "frame"
    /\ pc' = [pc EXCEPT ![r] = "updated"]
    /\ events' = [events EXCEPT ![r] = Append(@, "frame")]
    /\ UNCHANGED <<args, options, decision, asked, http, value, dom, writers, turns, delivered,
                   unhandled, tracking>>

\* ---------------------------------------------------------------- outcomes

Finish(r, out) ==
    /\ pc' = [pc EXCEPT ![r] = IF out.threw THEN "crashed" ELSE "settled"]
    /\ events' = [events EXCEPT ![r] = @ \o out.ev]
    /\ delivered' = [delivered EXCEPT ![r] =
                        [navigate |-> out.navigate, alert |-> out.alert, fields |-> out.fields,
                         flash |-> out.flash, flashType |-> out.flashType]]
    /\ unhandled' = [unhandled EXCEPT ![r] = out.threw]

\* The fulfilment callback of processUpdate(response).then.
Dispatch(r, in) ==
    /\ pc[r] = "updated"
    /\ IF Field(value[r], X_WINTER_SUCCESS) = False
       THEN /\ \E c \in Inputs(in, r).errorAnswers :
                  Finish(r, DispatchOutcome(value[r], Unread, Unread, c))
            /\ UNCHANGED options
       ELSE \E c \in Inputs(in, r).responseAnswers, redirect \in Inputs(in, r).redirects,
               flash \in Inputs(in, r).flashes :
               /\ Finish(r, DispatchOutcome(value[r], redirect, flash, c))
               /\ options' = [options EXCEPT ![r].redirect = redirect, ![r].flash = flash]
    /\ UNCHANGED <<args, decision, asked, http, value, dom, writers, turns, tracking>>

\* The rejection callback of doAjax().then: processError(error).
DispatchRejection(r, in) ==
    /\ pc[r] = "rejected"
    /\ \E c \in Inputs(in, r).errorAnswers : Finish(r, ProcessError(value[r], c))
    /\ UNCHANGED <<args, options, decision, asked, http, value, dom, writers, turns, tracking>>

\* ----------------------------------------------------------------- Handler

\* ready(): without jQuery nothing is delegated and no listener is added.
Ready ==
    /\ listening = "no"
    /\ \E jQuery \in BOOLEAN : listening' = IF jQuery THEN "on" ELSE "off"
    /\ UNCHANGED <<lifecycle, requests, promises, legacy, broken>>

\* The listener of $ajaxPromise on an element with no legacy request in
\* flight: a new promise is kept under the element's key and handed to
\* ajaxStart.
AjaxPromise(target) ==
    /\ listening = "on"
    /\ legacy[target] = "idle"
    /\ Len(promises) < MaxLegacy
    /\ promises' = Append(promises, WithResolvers(target))
    /\ requests' = [requests EXCEPT ![PropertyKeyOf(target)] = Len(promises) + 1]
    /\ legacy' = [legacy EXCEPT ![target] = "busy"]
    /\ UNCHANGED <<lifecycle, listening, broken>>

\* What the listeners of $ajaxDone, $ajaxRedirected and $ajaxFail do with
\* this.requests[event.target]: the promise kept under the element's key is
\* resolved or rejected; with nothing kept there the call throws a TypeError.
SettleKept(target, state, with) ==
    LET kept == requests[PropertyKeyOf(target)]
    IN  IF kept = 0
        THEN /\ broken' = TRUE
             /\ UNCHANGED promises
        ELSE /\ promises' = [promises EXCEPT ![kept] = Settle(@, state, with, target)]
             /\ UNCHANGED broken

\* $ajaxDone: resolve(event.detail.data)
AjaxDone(target) ==
    /\ listening = "on"
    /\ legacy[target] = "busy"
    /\ SettleKept(target, "resolved", "data")
    /\ legacy' = [legacy EXCEPT ![target] = "idle"]
    /\ UNCHANGED <<lifecycle, listening, requests>>

\* $ajaxRedirected: resolve()
AjaxRedirected(target) ==
    /\ listening = "on"
    /\ legacy[target] = "busy"
    /\ SettleKept(target, "resolved", "undefined")
    /\ legacy' = [legacy EXCEPT ![target] = "idle"]
    /\ UNCHANGED <<lifecycle, requests, listening>>

\* $ajaxFail: reject(event.detail.textStatus)
AjaxFail(target) ==
    /\ listening = "on"
    /\ legacy[target] = "busy"
    /\ SettleKept(target, "rejected", "textStatus")
    /\ legacy' = [legacy EXCEPT ![target] = "idle"]
    /\ UNCHANGED <<listening, lifecycle, requests>>

\* --------------------------------------------------------- specifications

\* One step of request r, with its inputs drawn from the profile named in.
Step(r, in) ==
    \/ Construct(r, in)
    \/ ConfirmSettled(r, in)
    \/ AfterConfirm(r)
    \/ FetchSettled(r, in)
    \/ BodySettled(r, in)
    \/ BeginUpdate(r, in)
    \/ BeforeUpdateSettled(r, in)
    \/ Frame(r)
    \/ Dispatch(r, in)
    \/ DispatchRejection(r, in)

\* One request, from construction to its end.
Next == Step("r1", "Back")

Spec == Init /\ [][Next]_vars

\* One request whose pending work is always taken up in the end: fetch and
\* the body settle, the hooks settle, the requested frame fires, and the
\* event loop runs every callback that is due.
Fairness ==
    /\ WF_vars(ConfirmSettled("r1", "Live"))
    /\ WF_vars(AfterConfirm("r1"))
    /\ WF_vars(FetchSettled("r1", "Live"))
    /\ WF_vars(BodySettled("r1", "Live"))
    /\ WF_vars(BeginUpdate("r1", "Live"))
    /\ WF_vars(BeforeUpdateSettled("r1", "Live"))
    /\ WF_vars(Frame("r1"))
    /\ WF_vars(Dispatch("r1", "Live"))
    /\ WF_vars(DispatchRejection("r1", "Live"))

NextLive == Step("r1", "Live")

SpecLive == Init /\ [][NextLive]_vars /\ Fairness

\* The legacy requests of the backend, as Handler follows them.
NextHandler ==
    \/ Ready
    \/ \E target \in LegacyElements : AjaxPromise(target)
    \/ \E target \in LegacyElements : AjaxDone(target)
    \/ \E target \in LegacyElements : AjaxRedirected(target)
    \/ \E target \in LegacyElements : AjaxFail(target)

SpecHandler == Init /\ [][NextHandler]_vars

\* One request, with every way through the constructor.
NextFront == Step("r1", "Front")

SpecFront == Init /\ [][NextFront]_vars

\* Two requests in flight at once, their steps interleaved in any order.
NextPair == \E r \in ReqIds : Step(r, "Pair")

SpecPair == Init /\ [][NextPair]_vars

\* One request, with every handler name.
NextNames == Step("r1", "Names")

SpecNames == Init /\ [][NextNames]_vars

\* ------------------------------------------------------------------ claims

Dispatches(r) == Count(events[r], "processResponse") + Count(events[r], "processError")

Mutated(r) == Has(events[r], "innerHTML") \/ \E e \in Elements : r \in writers[e]

\* C1: over the whole life of a request, processResponse and processError
\* together run at most once, whatever the order in which the network, the
\* hooks and the redraw frame complete.
DispatchAtMostOnce == \A r \in ReqIds : Dispatches(r) <= 1

DispatchedOnce ==
    \E r \in ReqIds :
        /\ pc[r] = "settled"
        /\ Dispatches(r) = 1
        /\ Has(events[r], "frame")
        /\ Field(value[r], X_WINTER_SUCCESS) = False

\* The server answered 406 with a JSON object that carries at least one
\* partial and X_WINTER_ERROR_FIELDS.
SoftFailure(r) ==
    /\ http[r].status = 406
    /\ http[r].json
    /\ http[r].body.kind = "obj"
    /\ \E i \in DOMAIN http[r].body.entries : IsPartialKey(http[r].body.entries[i].k)
    /\ Truthy(Get(http[r].body.entries, X_WINTER_ERROR_FIELDS))

\* Every partial of the body is in every element its selector matches.
PartialsApplied(r) ==
    \A i \in DOMAIN http[r].body.entries :
        LET entry == http[r].body.entries[i]
            selector == SelectorOf(options[r].update, entry.k)
        IN  IsPartialKey(entry.k) =>
                \A e \in QuerySelectorAll(StripMode(selector)) :
                    /\ r \in writers[e]
                    /\ dom[e] # InitialDom[e]

\* C2: on a 406 with a JSON body that carries a partial and
\* X_WINTER_ERROR_FIELDS, processResponse never runs, and validation-error
\* handling runs only after doUpdate applied the partials, with the fields
\* of the body; it does run once the update phase has resolved.
SoftFailureUpdatesThenValidates ==
    \A r \in ReqIds :
        SoftFailure(r) =>
            /\ ~Has(events[r], "processResponse")
            /\ pc[r] = "settled" => Has(events[r], "processValidationErrors")
            /\ Has(events[r], "processValidationErrors") =>
                  /\ Has(events[r], "doUpdate")
                  /\ AllBefore(events[r], "doUpdate", "processValidationErrors")
                  /\ AllBefore(events[r], "innerHTML", "processValidationErrors")
                  /\ PartialsApplied(r)
                  /\ delivered[r].fields = Get(http[r].body.entries, X_WINTER_ERROR_FIELDS)

SoftFailureValidated ==
    \E r \in ReqIds :
        /\ SoftFailure(r)
        /\ pc[r] = "settled"
        /\ Has(events[r], "innerHTML")
        /\ Has(events[r], "processValidationErrors")

\* A redirect URL is on the payload or in options.redirect.
RedirectPresent(r) ==
    \/ Truthy(Field(value[r], X_WINTER_REDIRECT))
    \/ (options[r].redirect # Unread /\ Truthy(RedirectOf(options[r].redirect)))

RedirectVetoed(r) ==
    \/ Has(events[r], "handleRedirectResponse=false")
    \/ Has(events[r], "hook:ajaxRedirect=false")

\* C3: when processResponse runs with a redirect URL on the payload or in
\* options.redirect, flash and asset handling are not invoked, and the page
\* navigates exactly once, to that URL, unless handleRedirectResponse or the
\* ajaxRedirect hook vetoes, in which case it does not navigate.
RedirectIsExclusive ==
    \A r \in ReqIds :
        (Has(events[r], "processResponse") /\ RedirectPresent(r)) =>
            /\ ~Has(events[r], "processFlashMessages")
            /\ ~Has(events[r], "processAssets")
            /\ Count(events[r], "location.assign") = IF RedirectVetoed(r) THEN 0 ELSE 1
            /\ delivered[r].navigate =
                  IF RedirectVetoed(r) THEN Undefined
                  ELSE Or(Field(value[r], X_WINTER_REDIRECT), RedirectOf(options[r].redirect))

RedirectedPastFlash ==
    \E r \in ReqIds :
        /\ Has(events[r], "processResponse")
        /\ Truthy(Field(value[r], X_WINTER_REDIRECT))
        /\ Truthy(Field(value[r], X_WINTER_FLASH_MESSAGES))
        /\ options[r].flash = True
        /\ delivered[r].navigate = <<"/done">>

\* C4: once beforeUpdate has returned false the request mutates no element,
\* does not broadcast ajaxBeforeUpdate, its update promise is rejected, and
\* neither processResponse nor processError runs.
BeforeUpdateFalseAborts ==
    \A r \in ReqIds :
        Has(events[r], "beforeUpdate=false") =>
            /\ ~Mutated(r)
            /\ ~Has(events[r], "hook:ajaxBeforeUpdate")
            /\ pc[r] = "failed"
            /\ Dispatches(r) = 0

BeforeUpdateRefusedPartials ==
    \E r \in ReqIds :
        /\ Has(events[r], "beforeUpdate=false")
        /\ Len(ExtractPartials(value[r])) > 0
        /\ pc[r] = "failed"

\* The calls that belong to the confirmation stage.
ConfirmEvents ==
    {"handleConfirmMessage", "confirm()", "hook:ajaxConfirmMessage",
     "hook:ajaxConfirmMessage=false", "hook:ajaxConfirmMessage=reject"}

ConfirmInvoked(r) == \E i \in DOMAIN events[r] : events[r][i] \in ConfirmEvents

ConfirmTruthy(r) == options[r].confirm # Unread /\ Truthy(options[r].confirm)

ConfirmFalsy(r) == options[r].confirm # Unread /\ ~Truthy(options[r].confirm)

\* C5: with a truthy options.confirm, fetch is never called while the
\* decision is pending or denied; a denied request ends there, its last call
\* being the confirmation primitive, with no element mutated and no dispatch;
\* an approved one calls fetch exactly once, right after the confirmation.
ConfirmationGates ==
    \A r \in ReqIds :
        ConfirmTruthy(r) =>
            /\ decision[r] # "none"
            /\ Has(events[r], "fetch") => decision[r] = "yes"
            /\ decision[r] = "pending" => pc[r] = "confirming"
            /\ decision[r] = "no" =>
                  /\ pc[r] \in {"confirmed", "denied"}
                  /\ events[r][Len(events[r])] \in ConfirmEvents
                  /\ ~Mutated(r)
                  /\ Dispatches(r) = 0
            /\ (decision[r] = "yes" /\ pc[r] # "confirmed") =>
                  /\ Count(events[r], "fetch") = 1
                  /\ \E i \in DOMAIN events[r] :
                        /\ i > 1
                        /\ events[r][i] = "fetch"
                        /\ events[r][i - 1] \in ConfirmEvents
                  /\ pc[r] # "denied"

ConfirmationDenied ==
    \E r \in ReqIds :
        /\ ConfirmTruthy(r)
        /\ pc[r] = "denied"
        /\ Has(events[r], "hook:ajaxConfirmMessage=false")

\* Every way a request fails in transport: fetch rejected, the body could
\* not be read or parsed, or the status is neither OK nor 406.
TransportFailure(r) ==
    \/ value[r] = DoAjaxNoResponse
    \/ http[r].body.kind = "bad"
    \/ (http[r].body.kind # "none" /\ ~Ok(http[r].status) /\ http[r].status # 406)

\* C6: every transport failure rejects doAjax with an Error, which goes to
\* processErrorMessage exactly once; no partial is applied, processResponse
\* does not run, and no rejection is left unhandled.
TransportFailuresRouted ==
    \A r \in ReqIds :
        TransportFailure(r) =>
            /\ pc[r] \in {"rejected", "settled"}
            /\ value[r].kind = "error"
            /\ ~unhandled[r]
            /\ ~Mutated(r)
            /\ ~Has(events[r], "processResponse")
            /\ Count(events[r], "processErrorMessage") = IF pc[r] = "settled" THEN 1 ELSE 0

\* [namespace::]on<Name>: an optional word and two colons, the two letters
\* "on", and a name of one or more word symbols.
WellFormedHandler(s) ==
    \E start \in {1} \cup {k + 3 : k \in NamespaceEnds(s)} :
        /\ Len(s) >= start + 2
        /\ s[start] = "o"
        /\ s[start + 1] = "n"
        /\ \A i \in (start + 2)..Len(s) : IsWord(s[i])

\* C7: given an element that passes, construction succeeds exactly for the
\* handlers of the form [namespace::]on<Name> and throws for every other.
HandlerFormDecides ==
    \A r \in ReqIds :
        (pc[r] # "new" /\ args[r].element \in {"undefined", "element"}) =>
            (pc[r] # "threw" <=>
                (args[r].handler.defined /\ WellFormedHandler(args[r].handler.s)))

\* C8: with a falsy options.confirm the request goes on to fetch and invokes
\* none of handleConfirmMessage, confirm() and the ajaxConfirmMessage hook.
FalsyConfirmSkipsGate ==
    \A r \in ReqIds :
        ConfirmFalsy(r) =>
            /\ Has(events[r], "fetch")
            /\ ~ConfirmInvoked(r)
            /\ decision[r] = "none"

EmptyConfirmSent ==
    \E r \in ReqIds :
        /\ options[r].confirm = <<>>
        /\ pc[r] = "settled"
        /\ Has(events[r], "fetch")

\* C9: when ajaxBeforeUpdate vetoes, by rejecting or by resolving to false,
\* the request mutates no element and does not dispatch.
BeforeUpdateVetoAborts ==
    \A r \in ReqIds :
        (\/ Has(events[r], "hook:ajaxBeforeUpdate=false")
         \/ Has(events[r], "hook:ajaxBeforeUpdate=reject")) =>
            /\ ~Mutated(r)
            /\ Dispatches(r) = 0

\* What doUpdate of request r does when it runs alone on the initial
\* document, with r's own response and options.
Alone(r) == DoUpdate(InitialDom, options[r].update, ExtractPartials(value[r]))

\* The elements the partials of r resolve to, once r has run doUpdate.
Targets(r) == IF Has(events[r], "doUpdate") THEN Alone(r).touched ELSE {}

\* C10: with two requests in flight, an element is written only by a
\* request whose own partials resolve to it; when the two target disjoint
\* elements, every element holds what its one request alone would leave in
\* it; and each request resolves with, navigates to and validates with what
\* its own response carries.
NoCrossContamination ==
    /\ \A e \in Elements : writers[e] \subseteq {r \in ReqIds : e \in Targets(r)}
    /\ (Targets("r1") \cap Targets("r2") = {}) =>
          \A e \in Elements :
              dom[e] = IF e \in Targets("r1") THEN Alone("r1").dom[e]
                       ELSE IF e \in Targets("r2") THEN Alone("r2").dom[e]
                       ELSE InitialDom[e]
    /\ \A r \in ReqIds :
          /\ value[r].kind = "obj" =>
                value[r].entries = AssignStatus(http[r].body, http[r].status)
          /\ delivered[r].navigate \in {Undefined, Field(value[r], X_WINTER_REDIRECT)}

BothUpdatedApart ==
    /\ pc["r1"] = "settled"
    /\ pc["r2"] = "settled"
    /\ Targets("r1") = {"a"}
    /\ Targets("r2") = {"b1", "b2"}
    /\ writers = [e \in Elements |-> IF e = "a" THEN {"r1"} ELSE {"r2"}]
    /\ delivered["r1"].navigate = <<"/done">>

\* s begins with prefix.
BeginsWith(s, prefix) ==
    Len(s) >= Len(prefix) /\ \A i \in DOMAIN prefix : s[i] = prefix[i]

\* s is the beginning of t.
IsPrefixOf(s, t) == Len(s) <= Len(t) /\ \A i \in DOMAIN s : s[i] = t[i]

\* The keys of the response of r that do not begin with X_WINTER, in order.
PlainKeys(r) ==
    LET plain == SelectSeq(value[r].entries, LAMBDA e : ~BeginsWith(e.k, XW))
    IN  [i \in DOMAIN plain |-> plain[i].k]

\* C11: no key of a JSON response that begins with X_WINTER is used as a
\* partial: doUpdate never looks it up in options.update, never hands it to
\* querySelectorAll, and nothing of its value is in the document; every other
\* key is a partial: a response with such a key is not resolved without an
\* update, and the loop of doUpdate goes through these keys in order, through
\* all of them unless a turn threw.
PrefixedKeysAreNotPartials ==
    \A r \in ReqIds :
        value[r].kind = "obj" =>
            /\ \A i \in DOMAIN turns[r].looked : ~BeginsWith(turns[r].looked[i], XW)
            /\ \A i \in DOMAIN turns[r].queried : ~BeginsWith(turns[r].queried[i], XW)
            /\ \A i \in DOMAIN value[r].entries :
                  BeginsWith(value[r].entries[i].k, XW) =>
                      \A e \in Elements, j \in DOMAIN value[r].entries[i].v :
                          ~Has(dom[e], value[r].entries[i].v[j])
            /\ (Has(events[r], "processUpdate") /\ ~Has(events[r], "beforeUpdate=false")
                    /\ PlainKeys(r) # <<>>) =>
                  Has(events[r], "hook:ajaxBeforeUpdate")
            /\ IsPrefixOf(turns[r].looked, PlainKeys(r))
            /\ (Has(events[r], "doUpdate") /\ ~turns[r].threw) =>
                  turns[r].looked = PlainKeys(r)

SideFieldsKeptOffDocument ==
    \E r \in ReqIds :
        /\ pc[r] = "settled"
        /\ Field(value[r], X_WINTER_SUCCESS) = True
        /\ Field(value[r], X_WINTER_RESPONSE_CODE) = <<"#200">>
        /\ Truthy(Field(value[r], X_WINTER_FLASH_MESSAGES))
        /\ turns[r].looked = << <<"a">> >>
        /\ dom["a"] = <<"A">>

\* The selector doUpdate of r hands to querySelectorAll for a partial name.
Resolved(r, name) == StripMode(SelectorOf(options[r].update, name))

\* The partial's selector is one querySelectorAll accepts and no element
\* matches it.
NoMatch(r, entry) ==
    ValidSelector(Resolved(r, entry.k)) /\ QuerySelectorAll(Resolved(r, entry.k)) = {}

\* doUpdate of r ran with options.update given, every selector well formed,
\* and at least one of them without a match.
UpdatedWithNoMatch(r) ==
    /\ Has(events[r], "doUpdate")
    /\ options[r].update.defined
    /\ \A i \in DOMAIN ClosurePartials(r) : ValidSelector(Resolved(r, ClosurePartials(r)[i].k))
    /\ \E i \in DOMAIN ClosurePartials(r) : NoMatch(r, ClosurePartials(r)[i])

\* C12: when the selector of a partial matches no element, doUpdate raises no
\* error, leaves the document as the other partials of the response alone
\* would leave it, writes every element the other partials match, and its
\* promise is fulfilled: the request is never left rejected or pending, and
\* dispatches once it has gone past the redraw frame.
NoMatchIsSilent ==
    \A r \in ReqIds :
        UpdatedWithNoMatch(r) =>
            LET others == SelectSeq(ClosurePartials(r), LAMBDA e : ~NoMatch(r, e))
                without == DoUpdate(InitialDom, options[r].update, others)
            IN  /\ ~turns[r].threw
                /\ Len(turns[r].looked) = Len(ClosurePartials(r))
                /\ dom = without.dom
                /\ Count(events[r], "innerHTML") = without.writes
                /\ \A i \in DOMAIN others :
                      \A e \in QuerySelectorAll(Resolved(r, others[i].k)) : r \in writers[e]
                /\ pc[r] \in {"frame", "updated", "settled", "crashed"}
                /\ Has(events[r], "requestAnimationFrame")
                /\ pc[r] \in {"settled", "crashed"} => Dispatches(r) = 1

NoMatchBesideMatch ==
    \E r \in ReqIds :
        /\ UpdatedWithNoMatch(r)
        /\ turns[r].queried = << <<"message">>, <<"a">> >>
        /\ dom = [InitialDom EXCEPT !["a"] = <<"A">>]
        /\ pc[r] = "settled"
        /\ Dispatches(r) = 1

\* The partials of r whose selector matches element e, in order.
Hits(r, e) ==
    SelectSeq(ClosurePartials(r),
              LAMBDA p : /\ ValidSelector(Resolved(r, p.k))
                         /\ e \in QuerySelectorAll(Resolved(r, p.k)))

\* doUpdate of r ran to its end and exactly one of its partials matched e.
HitOnce(r, e) ==
    /\ Has(events[r], "doUpdate")
    /\ options[r].update.defined
    /\ ~turns[r].threw
    /\ Len(Hits(r, e)) = 1

\* The document after doUpdate of r runs once more with the same partials.
Again(r) == DoUpdate(dom, options[r].update, ClosurePartials(r)).dom

\* C13: an element with content A matched by one partial of sanitized
\* content B holds B when the selector has no prefix, A followed by B when it
\* begins with "@", B followed by A when it begins with "^"; running the same
\* update once more leaves B in the first case and adds a second B in the
\* other two, which is another content whenever B is not empty.
ModesCompose ==
    \A r \in ReqIds : \A e \in Elements :
        HitOnce(r, e) =>
            LET A == InitialDom[e]
                B == Sanitize(Hits(r, e)[1].v)
                prefix == Substr(SelectorOf(options[r].update, Hits(r, e)[1].k), 0, 1)
            IN  /\ prefix \notin {<<"@">>, <<"^">>} =>
                      /\ dom[e] = B
                      /\ Again(r)[e] = dom[e]
                /\ prefix = <<"@">> =>
                      /\ dom[e] = A \o B
                      /\ Again(r)[e] = A \o B \o B
                      /\ B # <<>> => Again(r)[e] # dom[e]
                /\ prefix = <<"^">> =>
                      /\ dom[e] = B \o A
                      /\ Again(r)[e] = B \o B \o A
                      /\ B # <<>> => Again(r)[e] # dom[e]

PrependedToBoth ==
    \E r \in ReqIds :
        /\ HitOnce(r, "b1")
        /\ HitOnce(r, "b2")
        /\ options[r].update.map = <<Entry(<<"a">>, <<"^", "b">>)>>
        /\ dom["b1"] = <<"A", "b", "0">>
        /\ dom["b2"] = <<"A", "b", "0">>
        /\ dom["a"] = InitialDom["a"]

\* The server answered an OK status and a body that is not JSON, and
\* neither beforeUpdate nor the ajaxBeforeUpdate hook refused the update.
OpaqueText(r) ==
    /\ Ok(http[r].status)
    /\ ~http[r].json
    /\ http[r].body.kind = "text"
    /\ ~Has(events[r], "beforeUpdate=false")
    /\ ~Has(events[r], "hook:ajaxBeforeUpdate=reject")

\* C14: an OK response that is not JSON is rendered as one partial, the
\* whole body: doUpdate goes through at most one turn, which does not throw,
\* the update promise is not rejected, and the request dispatches to
\* processResponse.
OpaqueTextRendered ==
    \A r \in ReqIds :
        OpaqueText(r) =>
            /\ Len(turns[r].looked) <= 1
            /\ ~turns[r].threw
            /\ pc[r] \notin {"failed", "stuck"}
            /\ ~unhandled[r]
            /\ pc[r] \in {"settled", "crashed"} => Has(events[r], "processResponse")

\* The selector a partial name stands for: the entry of options.update for
\* the name once its mode prefix is off, the name itself without an entry.
TargetOf(r, name) ==
    IF \E i \in DOMAIN options[r].update.map : options[r].update.map[i].k = name
    THEN StripMode(Get(options[r].update.map, name))
    ELSE name

\* C15: once doUpdate runs on a JSON response, whatever options.update is
\* (a map with an entry for the name, a map without one, or not given),
\* every partial is queried with the selector it stands for, no turn throws,
\* the update promise is not rejected, and the request dispatches.
SelectorFromUpdateOrName ==
    \A r \in ReqIds :
        (Has(events[r], "doUpdate") /\ value[r].kind = "obj") =>
            /\ turns[r].queried =
                  [i \in DOMAIN ClosurePartials(r) |-> TargetOf(r, ClosurePartials(r)[i].k)]
            /\ ~turns[r].threw
            /\ pc[r] \notin {"failed", "stuck"}
            /\ ~unhandled[r] \/ pc[r] = "crashed"
            /\ pc[r] \in {"settled", "crashed"} => Dispatches(r) = 1

\* processResponse of r has run to its end with no redirect URL on the
\* payload or in options.redirect.
SuccessDispatched(r) ==
    /\ Has(events[r], "processResponse")
    /\ pc[r] \in {"settled", "crashed"}
    /\ ~RedirectPresent(r)

\* C16: on the success dispatch without a redirect URL, flash-message
\* handling is called exactly when options.flash is truthy and the payload
\* carries X_WINTER_FLASH_MESSAGES, asset loading is called exactly when the
\* payload carries X_WINTER_ASSETS, and the dispatch ends without an error.
FlashAndAssetsIndependent ==
    \A r \in ReqIds :
        SuccessDispatched(r) =>
            /\ Has(events[r], "processFlashMessages") <=>
                  (Truthy(FlashOf(options[r].flash))
                     /\ Truthy(Field(value[r], X_WINTER_FLASH_MESSAGES)))
            /\ Has(events[r], "processAssets") <=> Truthy(Field(value[r], X_WINTER_ASSETS))
            /\ pc[r] = "settled"
            /\ ~unhandled[r]

\* C17: when processError runs on an Error instance, processErrorMessage
\* runs once, with the message of the Error, and validation handling does not
\* run; on anything else validation handling runs exactly when
\* X_WINTER_ERROR_FIELDS is there, with those fields, processErrorMessage runs
\* exactly when X_WINTER_ERROR_MESSAGE is there, with that message, and all of
\* validation handling comes before processErrorMessage.
ErrorDispatchRoutes ==
    \A r \in ReqIds :
        Has(events[r], "processError") =>
            IF value[r].kind = "error"
            THEN /\ Count(events[r], "processErrorMessage") = 1
                 /\ ~Has(events[r], "processValidationErrors")
                 /\ delivered[r].fields = Undefined
                 /\ Has(events[r], "alert") => delivered[r].alert = value[r].text
            ELSE /\ Count(events[r], "processValidationErrors") =
                       IF Truthy(Field(value[r], X_WINTER_ERROR_FIELDS)) THEN 1 ELSE 0
                 /\ Count(events[r], "processErrorMessage") =
                       IF Truthy(Field(value[r], X_WINTER_ERROR_MESSAGE)) THEN 1 ELSE 0
                 /\ delivered[r].fields = Field(value[r], X_WINTER_ERROR_FIELDS)
                 /\ Has(events[r], "alert") =>
                       delivered[r].alert = Field(value[r], X_WINTER_ERROR_MESSAGE)
                 /\ \A x \in {"processValidationErrors", "handleValidationErrors",
                               "hook:ajaxValidationErrors"} :
                       AllBefore(events[r], x, "processErrorMessage")

FieldsThenMessage ==
    \E r \in ReqIds :
        /\ pc[r] = "settled"
        /\ value[r].kind = "obj"
        /\ Has(events[r], "hook:ajaxValidationErrors")
        /\ Has(events[r], "alert")
        /\ delivered[r].fields = <<"#object", "name">>
        /\ delivered[r].alert = <<"Invalid">>

\* processResponse of r ran with a redirect URL, so processRedirect ran.
Redirecting(r) == Has(events[r], "processResponse") /\ RedirectPresent(r)

\* C18: processRedirect asks handleRedirectResponse before the ajaxRedirect
\* hook and does not broadcast the hook once the callback returned false;
\* the popstate listener is registered exactly when neither vetoed, once,
\* after both were asked and before location.assign; a vetoed redirect
\* registers no listener and does not navigate. Without a redirect none of
\* this runs.
RedirectTiersInOrder ==
    \A r \in ReqIds :
        /\ Redirecting(r) =>
              /\ AllBefore(events[r], "handleRedirectResponse", "hook:ajaxRedirect")
              /\ Count(events[r], "hook:ajaxRedirect") =
                    IF Has(events[r], "handleRedirectResponse=false") THEN 0 ELSE 1
              /\ Count(events[r], "addEventListener:popstate") =
                    IF RedirectVetoed(r) THEN 0 ELSE 1
              /\ Count(events[r], "location.assign") =
                    Count(events[r], "addEventListener:popstate")
              /\ AllBefore(events[r], "hook:ajaxRedirect", "addEventListener:popstate")
              /\ AllBefore(events[r], "addEventListener:popstate", "location.assign")
              /\ RedirectVetoed(r) => delivered[r].navigate = Undefined
        /\ ~Redirecting(r) =>
              \A x \in {"handleRedirectResponse", "hook:ajaxRedirect",
                         "addEventListener:popstate", "location.assign"} :
                  ~Has(events[r], x)

RedirectVetoedByHook ==
    \E r \in ReqIds :
        /\ Redirecting(r)
        /\ pc[r] = "settled"
        /\ Has(events[r], "handleRedirectResponse")
        /\ ~Has(events[r], "handleRedirectResponse=false")
        /\ Has(events[r], "hook:ajaxRedirect=false")
        /\ options[r].redirect = <<"/home">>
        /\ delivered[r].navigate = Undefined

\* C19: each time the error-message routine runs, the blocking alert is shown
\* exactly once, with the message, when neither the handleErrorMessage callback
\* returned false nor the ajaxErrorMessage hook was cancelled, and is not shown
\* otherwise; while FlashListener listens to ajaxErrorMessage, every message
\* that reaches the hook is flashed as an 'error' flash and never alerted.
Refused(r) ==
    \/ Has(events[r], "handleErrorMessage=false")
    \/ Has(events[r], "hook:ajaxErrorMessage=false")

ErrorMessageOf(r) ==
    IF value[r].kind = "error" THEN value[r].text
    ELSE Field(value[r], X_WINTER_ERROR_MESSAGE)

AlertUnlessRefused ==
    \A r \in ReqIds :
        Has(events[r], "processErrorMessage") =>
            /\ Count(events[r], "processErrorMessage") = 1
            /\ Count(events[r], "alert") = IF Refused(r) THEN 0 ELSE 1
            /\ Has(events[r], "alert") <=> delivered[r].alert # Undefined
            /\ Has(events[r], "alert") => delivered[r].alert = ErrorMessageOf(r)
            /\ Has(events[r], "handleErrorMessage=false") =>
                   ~Has(events[r], "hook:ajaxErrorMessage")
            /\ Has(events[r], "listens:FlashListener") =>
                   /\ Has(events[r], "hook:ajaxErrorMessage")
                   /\ Count(events[r], "winter.flash") = 1
                   /\ delivered[r].flash = ErrorMessageOf(r)
                   /\ delivered[r].flashType = "error"
                   /\ ~Has(events[r], "alert")
            /\ ~Has(events[r], "listens:FlashListener") =>
                   /\ ~Has(events[r], "winter.flash")
                   /\ delivered[r].flashType = "none"

FlashedInsteadOfAlerted ==
    \E r \in ReqIds :
        /\ Has(events[r], "listens:FlashListener")
        /\ ~Has(events[r], "handleErrorMessage=false")
        /\ delivered[r].flashType = "error"
        /\ Len(delivered[r].flash) > 0
        /\ delivered[r].alert = Undefined

\* C20: when the ajaxSetup hook is cancelled, or browserValidate is true and
\* the form fails checkValidity, the request is aborted: no confirmation is
\* asked, fetch is not called, no element is written and neither
\* processResponse nor processError runs. ajaxSetup is broadcast, once, before
\* any client validation, and a cancelled ajaxSetup leaves client validation
\* unrun.
SetupCancelled(r) == Has(events[r], "hook:ajaxSetup=false")

ValidationFailed(r) == options[r].browserValidate = True /\ args[r].form = "invalid"

AbortLeavesAllUntouched ==
    \A r \in ReqIds :
        /\ (SetupCancelled(r) \/ ValidationFailed(r)) =>
              /\ pc[r] = "aborted"
              /\ ~ConfirmInvoked(r)
              /\ ~Has(events[r], "fetch")
              /\ http[r] = NoHttp
              /\ ~Mutated(r)
              /\ dom = InitialDom
              /\ Dispatches(r) = 0
              /\ delivered[r] = NothingDelivered
        /\ pc[r] \notin {"new", "threw"} =>
              /\ Count(events[r], "hook:ajaxSetup") = 1
              /\ events[r][1] = "hook:ajaxSetup"
        /\ AllBefore(events[r], "hook:ajaxSetup", "checkValidity")
        /\ Has(events[r], "checkValidity") => Has(events[r], "hook:ajaxSetup")
        /\ SetupCancelled(r) =>
              /\ ~Has(events[r], "checkValidity")
              /\ ~Has(events[r], "reportValidity")
        /\ ValidationFailed(r) => Count(events[r], "checkValidity") = 1

InvalidFormAborted ==
    \E r \in ReqIds :
        /\ ValidationFailed(r)
        /\ ~SetupCancelled(r)
        /\ pc[r] = "aborted"
        /\ Has(events[r], "checkValidity")

\* C21: every innerHTML assignment of a request's update comes before the
\* redraw frame is requested; processUpdate's promise resolves in the callback
\* of that frame, which is the call right after the request of the frame;
\* processResponse or processError of a response with partials runs only
\* after that callback; and once a request's dispatch has started no step
\* changes the document.
DispatchNames == {"processResponse", "processError"}

Updating(r) == Has(events[r], "doUpdate")

FrameRightAfterRequest(r) ==
    \A i \in DOMAIN events[r] :
        events[r][i] = "frame" => (i > 1 /\ events[r][i - 1] = "requestAnimationFrame")

UpdateSettlesFirst(r) ==
    /\ AllBefore(events[r], "innerHTML", "requestAnimationFrame")
    /\ AllBefore(events[r], "doUpdate", "innerHTML")
    /\ AllBefore(events[r], "requestAnimationFrame", "frame")
    /\ FrameRightAfterRequest(r)
    /\ Mutated(r) => Updating(r)
    /\ \A x \in DispatchNames :
          /\ AllBefore(events[r], "innerHTML", x)
          /\ AllBefore(events[r], "doUpdate", x)
          /\ AllBefore(events[r], "frame", x)
    /\ (Updating(r) /\ Dispatches(r) > 0) =>
          /\ Count(events[r], "requestAnimationFrame") = 1
          /\ Count(events[r], "frame") = 1
    /\ (Len(ClosurePartials(r)) > 0 /\ Dispatches(r) > 0 /\ Has(events[r], "processUpdate")) =>
          Updating(r)

DispatchAfterUpdateSettled ==
    /\ [](\A r \in ReqIds : UpdateSettlesFirst(r))
    /\ [][\A r \in ReqIds : Dispatches(r) > 0 => (dom' = dom /\ writers' = writers)]_vars

\* Two partials of which the second throws after the first was written: the
\* frame still came before the dispatch.
DispatchedAfterPartialUpdate ==
    \E r \in ReqIds :
        /\ Dispatches(r) = 1
        /\ turns[r].threw
        /\ Count(events[r], "innerHTML") > 0
        /\ Has(events[r], "frame")

\* C22: with a truthy options.confirm exactly one primitive takes the decision.
\* A handleConfirmMessage function decides alone, denying on the literal false
\* and approving on anything else; without it and with no listener of
\* ajaxConfirmMessage, the answer to confirm() decides and the hook is not
\* broadcast; otherwise the aggregated hook decides, approving on a truthy
\* aggregate and denying on a falsy one or on a rejection, which is caught
\* and goes no further.
PrimitivesUsed(r) ==
    Count(events[r], "handleConfirmMessage") + Count(events[r], "confirm()")
        + Count(events[r], "hook:ajaxConfirmMessage")

OnePrimitiveDecides ==
    \A r \in ReqIds :
        (ConfirmTruthy(r) /\ pc[r] \notin {"new", "threw", "aborted"}) =>
            /\ PrimitivesUsed(r) = 1
            /\ asked[r].handleConfirmMessage # "unread"
            /\ asked[r].handleConfirmMessage # "absent" =>
                  /\ Has(events[r], "handleConfirmMessage")
                  /\ decision[r] = IF asked[r].handleConfirmMessage = "false"
                                   THEN "no" ELSE "yes"
            /\ (asked[r].handleConfirmMessage = "absent" /\ asked[r].listeners = 0) =>
                  /\ Has(events[r], "confirm()")
                  /\ decision[r] = asked[r].answer
            /\ (asked[r].handleConfirmMessage = "absent" /\ asked[r].listeners > 0) =>
                  /\ Has(events[r], "hook:ajaxConfirmMessage")
                  /\ decision[r] = CASE asked[r].outcome = "none" -> "pending"
                                      [] asked[r].outcome = "true" -> "yes"
                                      [] OTHER -> "no"
                  /\ asked[r].outcome \in {"false", "reject"} =>
                        /\ ~unhandled[r]
                        /\ pc[r] \in {"confirmed", "denied"}
            /\ decision[r] = "no" => ~Has(events[r], "fetch")

HookRejectionDenied ==
    \E r \in ReqIds :
        /\ ConfirmTruthy(r)
        /\ asked[r].handleConfirmMessage = "absent"
        /\ asked[r].listeners > 0
        /\ asked[r].outcome = "reject"
        /\ pc[r] = "denied"
        /\ ~unhandled[r]

\* C23: when fetch, the hooks and the requested frames all settle, every
\* constructed request reaches a terminal state; and a request whose doAjax
\* resolved and that nothing vetoes goes on through the update to its
\* dispatch, which runs exactly once.
Terminal(r) == pc[r] \in {"aborted", "denied", "failed", "settled", "crashed"}

Vetoed(r) ==
    \/ Has(events[r], "beforeUpdate=false")
    \/ Has(events[r], "hook:ajaxBeforeUpdate=false")
    \/ Has(events[r], "hook:ajaxBeforeUpdate=reject")

EveryRequestSettles ==
    \A r \in ReqIds :
        /\ (pc[r] \notin {"new", "threw"}) ~> Terminal(r)
        /\ (pc[r] = "resolved") ~> (Vetoed(r) \/ Dispatches(r) = 1)
        /\ [](Dispatches(r) <= 1)

\* C24: a response with status 406 never reaches the success dispatch, with
\* a JSON body or with a text body: processResponse does not run, nothing is
\* navigated to, and neither flash-message nor asset handling runs, whatever
\* redirect the payload or options.redirect asks for.
SuccessDispatchEvents ==
    {"processResponse", "handleRedirectResponse", "hook:ajaxRedirect", "location.assign",
     "processFlashMessages", "handleFlashMessages", "hook:ajaxFlashMessages", "processAssets"}

Status406NeverSucceeds ==
    \A r \in ReqIds :
        http[r].status = 406 =>
            /\ \A i \in DOMAIN events[r] : events[r][i] \notin SuccessDispatchEvents
            /\ delivered[r].navigate = Undefined

\* C25: for a JSON response that doAjax resolves with, the branch the dispatch
\* takes depends on the status alone: the status fields of the payload are
\* those derived from the status (X_WINTER_SUCCESS is false for 406 and true
\* otherwise), whatever the body said, so a body that differs from this one
\* only in X_WINTER_SUCCESS or X_WINTER_RESPONSE_CODE takes the same branch.
StatusFields == {X_WINTER_SUCCESS, X_WINTER_RESPONSE_CODE}

WithoutStatusFields(entries) == SelectSeq(entries, LAMBDA e : e.k \notin StatusFields)

\* The bodies that differ from body in the status fields only.
StatusVariants(body) ==
    {ObjBody(WithoutStatusFields(body.entries) \o said.entries) :
        said \in StatusBodies \cup {ObjBody(<<>>)}}

Branch(status, body) ==
    LET settled == DoAjaxSettle(status, TRUE, body)
    IN  IF settled.result # "resolve" THEN "none"
        ELSE DispatchOutcome(settled.value, Undefined, Undefined, DefaultAnswers).ev[1]

JsonResolved(r) ==
    /\ pc[r] \notin {"new", "sending", "reading"}
    /\ http[r].json
    /\ http[r].body.kind = "obj"
    /\ (Ok(http[r].status) \/ http[r].status = 406)

BranchByStatusAlone ==
    \A r \in ReqIds :
        JsonResolved(r) =>
            /\ Field(value[r], X_WINTER_SUCCESS) = Bool(http[r].status # 406)
            /\ Field(value[r], X_WINTER_RESPONSE_CODE) = NumberValue(http[r].status)
            /\ Has(events[r], "processResponse") => http[r].status # 406
            /\ Has(events[r], "processError") => http[r].status = 406
            /\ \A other \in StatusVariants(http[r].body) :
                  Branch(http[r].status, other) = Branch(http[r].status, http[r].body)

ServerFlagOverruled ==
    \E r \in ReqIds :
        /\ JsonResolved(r)
        /\ http[r].status = 200
        /\ Get(http[r].body.entries, X_WINTER_SUCCESS) = False
        /\ Has(events[r], "processResponse")

\* C26: the handleValidationErrors callback and the ajaxValidationErrors hook
\* run only for a response with status 406 and a JSON body. For a status that
\* is neither OK nor 406 the dispatch, when it runs, is processErrorMessage on
\* the rendered Error alone, and the validation-errors map of the JSON body
\* never reaches validation handling.
ValidationEvents ==
    {"processValidationErrors", "handleValidationErrors", "handleValidationErrors=false",
     "hook:ajaxValidationErrors", "hook:ajaxValidationErrors=false"}

ValidationRan(r) ==
    \/ \E i \in DOMAIN events[r] : events[r][i] \in ValidationEvents
    \/ delivered[r].fields # Undefined

FailedStatus(r) ==
    /\ http[r].body.kind # "none"
    /\ ~Ok(http[r].status)
    /\ http[r].status # 406

ValidationOnlyOn406Json ==
    \A r \in ReqIds :
        /\ ValidationRan(r) =>
              /\ http[r].status = 406
              /\ http[r].json
              /\ http[r].body.kind = "obj"
        /\ FailedStatus(r) =>
              /\ ~ValidationRan(r)
              /\ ~Has(events[r], "processResponse")
              /\ ~Has(events[r], "processUpdate")
              /\ Dispatches(r) > 0 =>
                    /\ value[r].kind = "error"
                    /\ Count(events[r], "processError") = 1
                    /\ Count(events[r], "processErrorMessage") = 1

FailedStatusFieldsDropped ==
    \E r \in ReqIds :
        /\ FailedStatus(r)
        /\ http[r].json
        /\ Truthy(Get(http[r].body.entries, X_WINTER_ERROR_FIELDS))
        /\ Has(events[r], "processErrorMessage")
        /\ pc[r] = "settled"

\* C27: Handler follows each legacy request by the element it started from.
\* The promise handed to ajaxStart at an element's $ajaxPromise is settled by
\* the next $ajaxDone, $ajaxRedirected or $ajaxFail on that same element and
\* by no event on another element, in whatever order overlapping requests of
\* different elements end; and no end event finds nothing kept for an element
\* whose $ajaxPromise was seen.
PromisesOf(target) == {p \in DOMAIN promises : promises[p].of = target}

====
